---- MODULE Spec2Model ----
(***************************************************************************)
(* Model of the rule-matching core of show-excluded-and-ignored (rfe):     *)
(*   - rfe/models/rules_model.py   parse_filter_file and its helpers       *)
(*   - rfe/models/match_engine.py  MatchEngine                              *)
(*   - rfe/workers/scan_worker.py  ScanWorker                               *)
(*   - rfe/main_window.py          MainWindow, the scanning lifecycle      *)
(* A Python str is modelled as a sequence of one-character strings, so     *)
(* that slicing, find, strip, split and lower are computed, not assumed.   *)
(* Indexes into Python sequences are 0-based, as in the source.  An        *)
(* Optional value is a sequence of length at most one: None is << >> and   *)
(* a present value x is <<x>>.  A call's outcome carries `raised`, the     *)
(* name of the exception that left it, or Returned.                        *)
(***************************************************************************)
EXTENDS Integers, Sequences, FiniteSets, TLC

VARIABLES
    \* ---- MatchEngine under test (match_engine.py)
    rules,           \* MatchEngine.rules: the ordered Rule list
    prepared,        \* MatchEngine._prepared
    case_sensitive,  \* MatchEngine.case_sensitive
    rel_path,        \* the rel_path argument of the call under test
    decision,        \* what match_path / evaluate_path returned (or raised)
    all_indexes,     \* what matching_rule_indexes returned (or raised)
    \* ---- parse_filter_file (rules_model.py)
    lines,           \* the file's lines (path.read_text().splitlines())
    lineno,          \* number of lines consumed so far
    parsed,          \* the local list `rules` of parse_filter_file
    pending_label,   \* local pending_label
    pending_color,   \* local pending_color
    last_step,       \* which branch of the loop body the last line took
    \* ---- ScanWorker (scan_worker.py)
    tree,            \* index of the directory tree under root_path
    walk,            \* the triples os.walk(root) yields in this run
    root_exists,     \* root.exists() at the start of _run_scan
    cancel_requested,\* ScanWorker._cancel_requested
    pause_event,     \* ScanWorker._pause_event (TRUE = set)
    pc,              \* position of the worker thread inside start/_run_scan
    blocked,         \* the current _wait_if_paused call has timed out already
    walk_i,          \* index of the current os.walk triple
    entry_j,         \* index of the current name in `entries`
    nodes,           \* local dict nodes: rel_path -> PathNode (children apart)
    stats,           \* local ScanStats
    signals,         \* signals emitted so far, in order
    payload,         \* the ScanPayload handed to finished.emit, or None
    ui,              \* the UI thread: its position inside request_cancel, and
                     \* where the worker stood when request_cancel was called
    \* ---- MainWindow (main_window.py)
    win,             \* MainWindow: _scan_worker, _scan_thread, _scan_running,
                     \* _scan_paused, _controls_enabled, and whether
                     \* rules_panel.rules is non-empty
    workers,         \* every ScanWorker created so far, with its QThread
    events           \* queued signal deliveries waiting for the UI thread

matchVars == <<rules, prepared, case_sensitive, rel_path, decision, all_indexes>>
parseVars == <<lines, lineno, parsed, pending_label, pending_color, last_step>>
scanVars  == <<tree, walk, root_exists, cancel_requested, pause_event, pc, blocked,
               walk_i, entry_j, nodes, stats, signals, payload, ui>>
windowVars == <<win, workers, events>>
vars == <<matchVars, parseVars, scanVars, windowVars>>

None == << >>
Some(x) == <<x>>
Returned == "returned"

(***************************************************************************)
(* Python str operations                                                   *)
(***************************************************************************)

\* ord(): the code points of the characters the model uses
Ord(c) ==
    CASE c = " " -> 32  [] c = "!" -> 33  [] c = "#" -> 35  [] c = "*" -> 42
      [] c = "+" -> 43  [] c = "-" -> 45  [] c = "." -> 46  [] c = "/" -> 47
      [] c = ":" -> 58  [] c = "?" -> 63
      [] c = "A" -> 65  [] c = "B" -> 66  [] c = "C" -> 67  [] c = "E" -> 69
      [] c = "L" -> 76  [] c = "O" -> 79  [] c = "R" -> 82
      [] c = "a" -> 97  [] c = "b" -> 98  [] c = "c" -> 99  [] c = "d" -> 100
      [] c = "e" -> 101 [] c = "l" -> 108 [] c = "n" -> 110 [] c = "o" -> 111
      [] c = "r" -> 114 [] c = "t" -> 116

\* str.lower() on one character
LowerChar(c) ==
    CASE c = "A" -> "a" [] c = "B" -> "b" [] c = "C" -> "c" [] c = "E" -> "e"
      [] c = "L" -> "l" [] c = "O" -> "o" [] c = "R" -> "r" [] OTHER -> c

\* str.lower()
Lower(s) == [i \in 1..Len(s) |-> LowerChar(s[i])]

\* Python's s[a:b] for 0 <= a, with b clipped to len(s)
Slice(s, a, b) ==
    LET hi == IF b > Len(s) THEN Len(s) ELSE b
    IN  IF a >= hi THEN << >> ELSE [i \in 1..(hi - a) |-> s[a + i]]

\* str.startswith at offset i (0-based)
OccursAt(s, tok, i) ==
    /\ i + Len(tok) <= Len(s)
    /\ \A k \in 1..Len(tok) : s[i + k] = tok[k]

\* the least element of a set of indexes, or -1 for none
LeastOrNone(hits) ==
    IF hits = {} THEN -1 ELSE CHOOSE i \in hits : \A k \in hits : i <= k

\* str.find(tok, start): lowest 0-based index >= start, or -1
Find(s, tok, start) ==
    LeastOrNone({i \in start..(Len(s) - Len(tok)) : OccursAt(s, tok, i)})

\* Python's str ordering (by code point, shorter prefix first)
RECURSIVE StrLess(_, _)
StrLess(s, t) ==
    IF Len(t) = 0 THEN FALSE
    ELSE IF Len(s) = 0 THEN TRUE
    ELSE IF s[1] # t[1] THEN Ord(s[1]) < Ord(t[1])
    ELSE StrLess(Tail(s), Tail(t))

Whitespace == {" "}

\* str.lstrip() / str.rstrip() / str.strip() for a set of characters
RECURSIVE LStrip(_, _)
LStrip(s, cs) ==
    IF Len(s) > 0 /\ s[1] \in cs THEN LStrip(Tail(s), cs) ELSE s

RECURSIVE RStrip(_, _)
RStrip(s, cs) ==
    IF Len(s) > 0 /\ s[Len(s)] \in cs THEN RStrip(SubSeq(s, 1, Len(s) - 1), cs)
    ELSE s

Strip(s, cs) == RStrip(LStrip(s, cs), cs)

\* str.split("/") : the segments between slashes, empty ones included
RECURSIVE Split(_, _)
SplitAt(s, sep, k) ==
    IF k = -1 THEN <<s>>
    ELSE <<Slice(s, 0, k)>> \o Split(Slice(s, k + 1, Len(s)), sep)
Split(s, sep) == SplitAt(s, sep, Find(s, <<sep>>, 0))

(***************************************************************************)
(* pathlib.PurePosixPath and fnmatch, as far as MatchEngine uses them      *)
(***************************************************************************)

\* _PosixFlavour.parse_parts: the components of a path or pattern, with
\* empty and "." segments dropped; root is "/" when the text starts with one
PathParts(s) ==
    SelectSeq(Split(s, "/"), LAMBDA p : p # << >> /\ p # <<".">>)

PathRoot(s) == IF Len(s) > 0 /\ s[1] = "/" THEN "/" ELSE ""

\* fnmatch.fnmatchcase(name, pat) for patterns over literals, "*" and "?"
RECURSIVE FnMatch(_, _)
FnMatch(name, pat) ==
    IF Len(pat) = 0 THEN Len(name) = 0
    ELSE IF pat[1] = "*"
         THEN \E k \in 0..Len(name) : FnMatch(Slice(name, k, Len(name)), Tail(pat))
    ELSE IF Len(name) = 0 THEN FALSE
    ELSE IF pat[1] = "?" \/ pat[1] = name[1] THEN FnMatch(Tail(name), Tail(pat))
    ELSE FALSE

\* PurePath.match(pattern) on a relative path given by its parts:
\* "ValueError" for a pattern without components, "nomatch" for a rooted
\* pattern or one with more components than the path, else the components
\* are compared from the right.
PartsMatch(parts, pat_parts, root) ==
    IF Len(pat_parts) = 0 /\ root = "" THEN "ValueError"
    ELSE IF root # "" THEN "nomatch"
    ELSE IF Len(pat_parts) > Len(parts) THEN "nomatch"
    ELSE IF \A k \in 1..Len(pat_parts) :
                FnMatch(parts[Len(parts) - Len(pat_parts) + k], pat_parts[k])
         THEN "match" ELSE "nomatch"

PurePathMatch(parts, pattern) ==
    PartsMatch(parts, PathParts(pattern), PathRoot(pattern))

(***************************************************************************)
(* match_engine.py                                                         *)
(***************************************************************************)

\* rules_model.Rule
Rule(action, pattern, line, label, color) ==
    [action |-> action, pattern |-> pattern, lineno |-> line, enabled |-> TRUE,
     label |-> label, color |-> color]

\* Tokens with a single star as the last token
TokensSingleStar == << <<"*", "*", "/">>, <<"/", "*", "*">>, <<"*">> >>

\* the token tuple of _expand_patterns, in its order
Tokens == << <<"*", "*", "/">>, <<"/", "*", "*">>, <<"*", "*">> >>

\* the inner `while start != -1` loop of _expand_patterns for one token:
\* st = [variants, queue]
\* `if reduced and reduced not in variants:` add it and queue it
WithReduced(st, reduced) ==
    IF reduced # << >> /\ reduced \notin st.variants
    THEN [variants |-> st.variants \cup {reduced},
          queue    |-> Append(st.queue, reduced)]
    ELSE st

\* ReduceAt deleting only the first occurrence of the token
ReduceAtFirstOnly(current, token, start, st) ==
    IF start = -1 THEN st
    ELSE WithReduced(st, Slice(current, 0, start)
                         \o Slice(current, start + Len(token), Len(current)))

RECURSIVE ReduceAt(_, _, _, _)
ReduceAt(current, token, start, st) ==
    IF start = -1 THEN st
    ELSE ReduceAt(current, token, Find(current, token, start + 1),
                  WithReduced(st, Slice(current, 0, start)
                                  \o Slice(current, start + Len(token), Len(current))))

\* the `for token in (...)` loop for one popped variant
RECURSIVE ReduceTokens(_, _, _)
ReduceTokens(current, t, st) ==
    IF t > Len(Tokens) THEN st
    ELSE ReduceTokens(current, t + 1,
                      ReduceAt(current, Tokens[t], Find(current, Tokens[t], 0), st))

\* the `while queue` loop: queue.pop() takes the last element
RECURSIVE ExpandLoop(_)
ExpandLoop(st) ==
    IF st.queue = << >> THEN st.variants
    ELSE ExpandLoop(ReduceTokens(st.queue[Len(st.queue)], 1,
                                 [variants |-> st.variants,
                                  queue    |-> SubSeq(st.queue, 1, Len(st.queue) - 1)]))

\* KeyLess putting the shortest first
KeyLessShortestFirst(s, t) ==
    Len(s) < Len(t) \/ (Len(s) = Len(t) /\ StrLess(s, t))

\* the sort key (-len(item), item)
KeyLess(s, t) == Len(s) > Len(t) \/ (Len(s) = Len(t) /\ StrLess(s, t))

\* sorted(variants, key=lambda item: (-len(item), item)): the key orders
\* the set totally, so each element's place is the number of elements
\* before it
SortedVariants(S) ==
    [i \in 1..Cardinality(S) |->
        CHOOSE x \in S : Cardinality({y \in S : KeyLess(y, x)}) = i - 1]

\* MatchEngine._expand_patterns
ExpandPatterns(pattern) ==
    SortedVariants(ExpandLoop([variants |-> {pattern}, queue |-> <<pattern>>]))

\* the list comprehension of MatchEngine.__init__: one PreparedRule per rule
\* with a non-empty pattern, carrying the rule's position in `rules`
RECURSIVE PreparedFrom(_, _)
PreparedFrom(rs, idx) ==
    IF idx >= Len(rs) THEN << >>
    ELSE LET rule == rs[idx + 1]
         IN  (IF rule.pattern # << >>
              THEN << [rule |-> rule, index |-> idx,
                       patterns |-> ExpandPatterns(rule.pattern),
                       patterns_lower |-> ExpandPatterns(Lower(rule.pattern))] >>
              ELSE << >>)
             \o PreparedFrom(rs, idx + 1)

Prepared(rs) == PreparedFrom(rs, 0)

\* MatchEngine._prepare_candidate: [posix_path, lowered_path] as part lists
CandidateOf(candidate, cs) ==
    [posix_path   |-> PathParts(candidate),
     lowered_path |-> IF ~cs THEN Some(PathParts(Lower(candidate))) ELSE None]

OrDot(normalized) == IF normalized # << >> THEN normalized ELSE <<".">>

PrepareCandidate(path, cs) == CandidateOf(OrDot(Strip(path, {"/"})), cs)

\* the `for pattern in patterns` loop of _pattern_matches: the first variant
\* that matches ends it, and so does a ValueError from PurePath.match
RECURSIVE AnyVariantMatches(_, _, _)
VariantResult(r, patterns, k, test_path) ==
    IF r = "nomatch" THEN AnyVariantMatches(patterns, k + 1, test_path) ELSE r
AnyVariantMatches(patterns, k, test_path) ==
    IF k > Len(patterns) THEN "nomatch"
    ELSE VariantResult(PurePathMatch(test_path, patterns[k]), patterns, k, test_path)

\* PatternMatches comparing the patterns and the path as they were given
PatternMatchesCaseSensitive(prep, cand, cs) ==
    AnyVariantMatches(prep.patterns, 1, cand.posix_path)

\* PatternMatches letting only enabled rules match
PatternMatchesEnabledOnly(prep, cand, cs) ==
    IF ~prep.rule.enabled THEN "nomatch"
    ELSE AnyVariantMatches(IF cs THEN prep.patterns ELSE prep.patterns_lower, 1,
                           IF cs THEN cand.posix_path
                           ELSE IF cand.lowered_path # None THEN cand.lowered_path[1]
                           ELSE [i \in 1..Len(cand.posix_path) |->
                                    Lower(cand.posix_path[i])])

\* MatchEngine._pattern_matches: "match", "nomatch", or "ValueError" when
\* PurePath.match raises before any variant has matched.  A PurePosixPath
\* is always truthy, so `lowered_path or ...` takes its right operand only
\* for None.
PatternMatches(prep, cand, cs) ==
    AnyVariantMatches(IF cs THEN prep.patterns ELSE prep.patterns_lower, 1,
                      IF cs THEN cand.posix_path
                      ELSE IF cand.lowered_path # None THEN cand.lowered_path[1]
                      ELSE [i \in 1..Len(cand.posix_path) |->
                               Lower(cand.posix_path[i])])

\* MatchEngine._matching_indexes: the loop over self._prepared; the result
\* is [raised, matches], raised naming the exception that left the loop
RECURSIVE MatchingLoop(_, _, _, _, _)
MatchedRule(r, prep, k, cand, cs, matches) ==
    IF r = "ValueError" THEN [raised |-> "ValueError", matches |-> << >>]
    ELSE MatchingLoop(prep, k + 1, cand, cs,
                      IF r = "match" THEN Append(matches, prep[k].index)
                      ELSE matches)
MatchingLoop(prep, k, cand, cs, matches) ==
    IF k > Len(prep) THEN [raised |-> Returned, matches |-> matches]
    ELSE MatchedRule(PatternMatches(prep[k], cand, cs), prep, k, cand, cs, matches)

MatchingIndexes(prep, cand, cs) == MatchingLoop(prep, 1, cand, cs, << >>)

\* MatchEngine.matching_rule_indexes
MatchingRuleIndexes(prep, cs, path) ==
    MatchingIndexes(prep, PrepareCandidate(path, cs), cs)

\* MatchDecision, with the exception (if any) that the call raised instead
Decision(raised, matched, rule_index, rule) ==
    [raised |-> raised, matched |-> matched, rule_index |-> rule_index,
     rule |-> rule]

\* DecisionFor taking the last match instead of the first
DecisionForLast(prep, m) ==
    IF m.raised # Returned THEN Decision(m.raised, FALSE, None, None)
    ELSE IF m.matches # << >>
    THEN (IF m.matches[Len(m.matches)] >= Len(prep)
          THEN Decision("IndexError", FALSE, None, None)
          ELSE Decision(Returned, TRUE, Some(m.matches[Len(m.matches)]),
                        Some(prep[m.matches[Len(m.matches)] + 1].rule)))
    ELSE Decision(Returned, FALSE, None, None)

\* the `if matches:` block shared by match_path and evaluate_path:
\* first = matches[0]; prepared = self._prepared[first]
DecisionFor(prep, m) ==
    IF m.raised # Returned THEN Decision(m.raised, FALSE, None, None)
    ELSE IF m.matches # << >>
    THEN (IF m.matches[1] >= Len(prep)
          THEN Decision("IndexError", FALSE, None, None)
          ELSE Decision(Returned, TRUE, Some(m.matches[1]),
                        Some(prep[m.matches[1] + 1].rule)))
    ELSE Decision(Returned, FALSE, None, None)

\* MatchEngine.match_path
MatchPath(prep, cs, path) ==
    DecisionFor(prep, MatchingRuleIndexes(prep, cs, path))

\* MatchResult, with the exception (if any) that evaluate_path raised
MatchResult(rel, d, m) ==
    [rel_path |-> rel, decision |-> d,
     all_rule_indexes |-> IF d.raised = Returned THEN m.matches ELSE << >>,
     raised |-> d.raised]

ResultFor(prep, rel, m) == MatchResult(rel, DecisionFor(prep, m), m)

\* MatchEngine.evaluate_path, for abs_path = root / rel
EvaluatePath(prep, cs, rel) ==
    ResultFor(prep, rel, MatchingRuleIndexes(prep, cs, rel))

(***************************************************************************)
(* MatchEngine: the calls of its public methods                            *)
(***************************************************************************)

\* longest rule list given to the engine
MaxRules == 2

\* the patterns the rules are drawn from: "", a, **/A, **/b/**, *, ., b/*
Patterns ==
    { << >>,
      <<"a">>,
      <<"*", "*", "/", "A">>,
      <<"*", "*", "/", "b", "/", "*", "*">>,
      <<"*">>,
      <<".">>,
      <<"b", "/", "*">> }

\* the relative paths handed to the engine:
\*   a, A, b, c/a, b/a, a/b/c, /b/, "", b/c/a
Paths ==
    { <<"a">>, <<"A">>, <<"b">>, <<"c", "/", "a">>, <<"b", "/", "a">>,
      <<"a", "/", "b", "/", "c">>, <<"/", "b", "/">>, << >>,
      <<"b", "/", "c", "/", "a">> }

RECURSIVE SeqsUpTo(_, _)
SeqsUpTo(S, n) ==
    IF n = 0 THEN { << >> }
    ELSE LET shorter == SeqsUpTo(S, n - 1)
         IN  shorter \cup {Append(q, x) : q \in shorter, x \in S}

\* a rule list as parse_filter_file builds it: "-" rules, line numbers rising
RulesOf(pats) == [i \in 1..Len(pats) |-> Rule("-", pats[i], i, None, None)]

RuleLists == {RulesOf(pats) : pats \in SeqsUpTo(Patterns, MaxRules)}

Pending == "pending"
NoDecision == Decision(Pending, FALSE, None, None)
NoIndexes  == [raised |-> Pending, matches |-> << >>]

\* MatchEngine(rules, case_sensitive=...): __init__ has run
MatchInit ==
    /\ rules \in RuleLists
    /\ prepared = Prepared(rules)
    /\ case_sensitive \in BOOLEAN
    /\ rel_path = << >>
    /\ decision = NoDecision
    /\ all_indexes = NoIndexes

\* no call has been made on the engine yet
Fresh == decision = NoDecision /\ all_indexes = NoIndexes

\* engine.match_path(p)
CallMatchPath ==
    \E p \in Paths :
        /\ Fresh
        /\ rel_path' = p
        /\ decision' = MatchPath(prepared, case_sensitive, p)
        /\ all_indexes' = NoIndexes
        /\ UNCHANGED <<rules, prepared, case_sensitive, parseVars, scanVars, windowVars>>

\* engine.matching_rule_indexes(p)
CallMatchingRuleIndexes ==
    \E p \in Paths :
        /\ Fresh
        /\ rel_path' = p
        /\ all_indexes' = MatchingRuleIndexes(prepared, case_sensitive, p)
        /\ decision' = NoDecision
        /\ UNCHANGED <<rules, prepared, case_sensitive, parseVars, scanVars, windowVars>>

\* the caller keeps result.decision and result.all_rule_indexes
Evaluated(r) ==
    /\ decision' = r.decision
    /\ all_indexes' = [raised |-> r.raised, matches |-> r.all_rule_indexes]

\* engine.evaluate_path(root / p, root): p is root-relative, so it has no
\* leading or trailing slash and is not empty
CallEvaluatePath ==
    \E p \in {q \in Paths : q # << >> /\ q[1] # "/"} :
        /\ Fresh
        /\ rel_path' = p
        /\ Evaluated(EvaluatePath(prepared, case_sensitive, p))
        /\ UNCHANGED <<rules, prepared, case_sensitive, parseVars, scanVars, windowVars>>

(***************************************************************************)
(* rules_model.py                                                          *)
(***************************************************************************)

\* re.split(r"\s+#", pattern, maxsplit=1)[0]: the text before the leftmost
\* run of whitespace that is followed by "#", or the whole text
BeforeInlineComment(pattern) ==
    LET RunEndsInHash(i) ==
            \E k \in (i + 1)..Len(pattern) :
                /\ pattern[k] = "#"
                /\ \A m \in i..(k - 1) : pattern[m] \in Whitespace
        starts == {i \in 1..Len(pattern) :
                      pattern[i] \in Whitespace /\ RunEndsInHash(i)}
    IN  IF starts = {} THEN pattern
        ELSE SubSeq(pattern, 1, (CHOOSE i \in starts : \A k \in starts : i <= k) - 1)

\* ParseRuleLine without the removal of an inline comment
ParseRuleLineKeepsComment(line) ==
    IF line = << >> THEN [action |-> None, pattern |-> << >>]
    ELSE IF line[1] \in {"+", "-", "!"}
    THEN [action |-> Some(line[1]), pattern |-> Strip(Tail(line), Whitespace)]
    ELSE [action |-> None, pattern |-> line]

\* _parse_rule_line: [action, pattern], action an Optional
ParseRuleLine(line) ==
    IF line = << >> THEN [action |-> None, pattern |-> << >>]
    ELSE IF line[1] \in {"+", "-"}
    THEN [action  |-> Some(line[1]),
          pattern |-> RStrip(BeforeInlineComment(Strip(Tail(line), Whitespace)),
                             Whitespace)]
    ELSE IF line[1] = "!"
    THEN [action |-> Some("!"), pattern |-> Strip(Tail(line), Whitespace)]
    ELSE [action |-> None, pattern |-> line]

KeyLabel == <<"l", "a", "b", "e", "l">>
KeyColor == <<"c", "o", "l", "o", "r">>

\* _parse_metadata_comment: Optional [key, value]
ParseMetadataComment(line) ==
    LET stripped == Strip(LStrip(line, {"#"}), Whitespace)
        colon    == Find(stripped, <<":">>, 0)
    IN  IF colon = -1 THEN None
        ELSE LET key   == Lower(Strip(Slice(stripped, 0, colon), Whitespace))
                 value == Strip(Slice(stripped, colon + 1, Len(stripped)), Whitespace)
             IN  IF key \in {KeyLabel, KeyColor}
                 THEN Some([key |-> key, value |-> value])
                 ELSE None

\* longest filter file, in lines
MaxLines == 3

\* the lines a filter file is made of:
\*   ""  " "  "# label: a"  "#Label :b "  "# color: #c"  "# note"
\*   "- a"  "! b"  "+ c"  "a"  " -"  "- a #c"  "-a#b #c"  "+ c  #d"
FileLines ==
    { << >>,
      <<" ">>,
      <<"#", " ", "l", "a", "b", "e", "l", ":", " ", "a">>,
      <<"#", "L", "a", "b", "e", "l", " ", ":", "b", " ">>,
      <<"#", " ", "c", "o", "l", "o", "r", ":", " ", "#", "c">>,
      <<"#", " ", "n", "o", "t", "e">>,
      <<"-", " ", "a">>,
      <<"!", " ", "b">>,
      <<"+", " ", "c">>,
      <<"a">>,
      <<" ", "-">>,
      <<"-", " ", "a", " ", "#", "c">>,
      <<"-", "a", "#", "b", " ", "#", "c">>,
      <<"+", " ", "c", " ", " ", "#", "d">> }

ParseInit ==
    /\ lines = << >>
    /\ lineno = 0
    /\ parsed = << >>
    /\ pending_label = None
    /\ pending_color = None
    /\ last_step = "open"

\* the next iteration of `for lineno, raw_line in enumerate(..., start=1)`
\* exists: the file has a further line raw_line
NextLine(raw_line) ==
    /\ last_step # "return"
    /\ lineno < MaxLines
    /\ raw_line \in FileLines
    /\ lines' = Append(lines, raw_line)
    /\ lineno' = lineno + 1

\* `if not line:` -- a blank line resets the pending metadata
ParseBlank ==
    \E raw_line \in FileLines :
        /\ NextLine(raw_line)
        /\ Strip(raw_line, Whitespace) = << >>
        /\ pending_label' = None
        /\ pending_color' = None
        /\ last_step' = "blank"
        /\ UNCHANGED <<parsed, matchVars, scanVars, windowVars>>

\* `if line.startswith("#"):` -- a comment, possibly label/color metadata
ParseComment ==
    \E raw_line \in FileLines :
        LET line      == Strip(raw_line, Whitespace)
            key_value == ParseMetadataComment(line)
        IN  /\ NextLine(raw_line)
            /\ line # << >>
            /\ line[1] = "#"
            /\ pending_label' = IF key_value # None /\ key_value[1].key = KeyLabel
                                THEN Some(key_value[1].value) ELSE pending_label
            /\ pending_color' = IF key_value # None /\ key_value[1].key = KeyColor
                                THEN Some(key_value[1].value) ELSE pending_color
            /\ last_step' = "comment"
            /\ UNCHANGED <<parsed, matchVars, scanVars, windowVars>>

\* `if action is None: continue`
ParseSkip ==
    \E raw_line \in FileLines :
        LET line == Strip(raw_line, Whitespace)
        IN  /\ NextLine(raw_line)
            /\ line # << >>
            /\ line[1] # "#"
            /\ ParseRuleLine(line).action = None
            /\ last_step' = "skip"
            /\ UNCHANGED <<parsed, pending_label, pending_color, matchVars, scanVars, windowVars>>

\* ParsePlus leaving the pending metadata in place
ParsePlusKeepsPending ==
    \E raw_line \in FileLines :
        /\ NextLine(raw_line)
        /\ Strip(raw_line, Whitespace) # << >>
        /\ Strip(raw_line, Whitespace)[1] = "+"
        /\ last_step' = "plus"
        /\ UNCHANGED <<parsed, pending_label, pending_color, matchVars, scanVars, windowVars>>

\* `if action == "+":` -- no rule, pending metadata cleared
ParsePlus ==
    \E raw_line \in FileLines :
        LET line == Strip(raw_line, Whitespace)
        IN  /\ NextLine(raw_line)
            /\ line # << >>
            /\ line[1] # "#"
            /\ ParseRuleLine(line).action = Some("+")
            /\ pending_label' = None
            /\ pending_color' = None
            /\ last_step' = "plus"
            /\ UNCHANGED <<parsed, matchVars, scanVars, windowVars>>

\* EmittedRule numbering the lines from 0
EmittedRuleZeroBased(rl, n, label, color) ==
    Rule(rl.action[1], rl.pattern, n - 1, label, color)

\* the Rule(...) built from a rule line and the pending metadata
EmittedRule(rl, n, label, color) == Rule(rl.action[1], rl.pattern, n, label, color)

\* ParseRule without the reset of the pending metadata
ParseRuleKeepsPending ==
    \E raw_line \in FileLines :
        /\ NextLine(raw_line)
        /\ Strip(raw_line, Whitespace) # << >>
        /\ Strip(raw_line, Whitespace)[1] \in {"-", "!"}
        /\ parsed' = Append(parsed,
                            EmittedRule(ParseRuleLine(Strip(raw_line, Whitespace)),
                                        lineno + 1, pending_label, pending_color))
        /\ last_step' = "rule"
        /\ UNCHANGED <<pending_label, pending_color, matchVars, scanVars, windowVars>>

\* rules.append(rule) and the reset of the pending metadata
ParseRule ==
    \E raw_line \in FileLines :
        LET line == Strip(raw_line, Whitespace)
            rl   == ParseRuleLine(line)
        IN  /\ NextLine(raw_line)
            /\ line # << >>
            /\ line[1] # "#"
            /\ rl.action # None
            /\ rl.action # Some("+")
            /\ parsed' = Append(parsed,
                                EmittedRule(rl, lineno + 1, pending_label, pending_color))
            /\ pending_label' = None
            /\ pending_color' = None
            /\ last_step' = "rule"
            /\ UNCHANGED <<matchVars, scanVars, windowVars>>

\* `return rules` once the lines are exhausted
ParseReturn ==
    /\ last_step # "return"
    /\ last_step' = "return"
    /\ UNCHANGED <<lines, lineno, parsed, pending_label, pending_color, matchVars,
                   scanVars, windowVars>>

(***************************************************************************)
(* The file system under root_path, and os.walk                            *)
(***************************************************************************)

\* "/".join(parts)
RECURSIVE Join(_)
Join(parts) ==
    IF Len(parts) = 0 THEN << >>
    ELSE IF Len(parts) = 1 THEN parts[1]
    ELSE parts[1] \o <<"/">> \o Join(Tail(parts))

\* one entry beneath the root: its POSIX path relative to the root, whether
\* it is a directory, and st_size (None when stat() fails with OSError)
Entry(rel, type, size) == [rel |-> rel, type |-> type, size |-> size]

\* a tree of 420 entries: the twenty directories aa/ ab/ ... de/, in each of
\* them the twenty files aa ab ... de
LargeTree ==
    {Entry(<<d[1], d[2]>>, "dir", Some(0)) :
        d \in {"a", "b", "c", "d"} \X {"a", "b", "c", "d", "e"}}
    \cup {Entry(<<e[1], e[2], "/", e[3], e[4]>>, "file", Some(1)) :
            e \in {"a", "b", "c", "d"} \X {"a", "b", "c", "d", "e"}
                   \X {"a", "b", "c", "d"} \X {"a", "b", "c", "d", "e"}}

\* the directory trees scanned:
\*   1: a                      (one file)
\*   2: b/  b/a  c             (a directory with a file, and a file)
\*   3: (empty root)
\*   4: b/  b/c/  b/c/a  A     (nested directories; A cannot be stat'ed)
\*   5: LargeTree
Trees ==
    << { Entry(<<"a">>, "file", Some(1)) },
       { Entry(<<"b">>, "dir", Some(0)),
         Entry(<<"b", "/", "a">>, "file", Some(2)),
         Entry(<<"c">>, "file", Some(3)) },
       { },
       { Entry(<<"b">>, "dir", Some(0)),
         Entry(<<"b", "/", "c">>, "dir", Some(0)),
         Entry(<<"b", "/", "c", "/", "a">>, "file", Some(4)),
         Entry(<<"A">>, "file", None) },
       LargeTree >>

\* ScanWorker._parent_key
ParentOfParts(parts) ==
    IF Len(parts) <= 1 THEN << >> ELSE Join(SubSeq(parts, 1, Len(parts) - 1))

ParentKey(rel) == ParentOfParts(PathParts(rel))

\* PurePath.name of root / rel
LastPart(parts) == IF Len(parts) = 0 THEN << >> ELSE parts[Len(parts)]

NameOf(rel) == LastPart(PathParts(rel))


\* the names of one kind in directory dir, in the order scandir lists them
\* (taken to be name order)
NamesOf(t, dir, type) ==
    {NameOf(e.rel) : e \in {x \in t : ParentKey(x.rel) = dir /\ x.type = type}}

InNameOrder(S) ==
    [i \in 1..Cardinality(S) |->
        CHOOSE x \in S : Cardinality({y \in S : StrLess(y, x)}) = i - 1]

NamesIn(t, dir, type) == InNameOrder(NamesOf(t, dir, type))

ChildKey(dir, name) == IF dir = << >> THEN name ELSE dir \o <<"/">> \o name

\* os.walk(root), top-down: the (dirpath, dirnames, filenames) triples, a
\* directory before its subdirectories
RECURSIVE WalkFrom(_, _)
RECURSIVE WalkEach(_, _, _)
WalkDir(t, dir, dirnames) ==
    << [dirpath |-> dir, dirnames |-> dirnames,
        filenames |-> NamesIn(t, dir, "file")] >>
    \o WalkEach(t, dir, dirnames)
WalkFrom(t, dir) == WalkDir(t, dir, NamesIn(t, dir, "dir"))
WalkEach(t, dir, names) ==
    IF names = << >> THEN << >>
    ELSE WalkFrom(t, ChildKey(dir, names[1])) \o WalkEach(t, dir, Tail(names))

OsWalk(t) == WalkFrom(t, << >>)

\* the entry of tree t at rel
EntryAt(t, rel) == CHOOSE e \in t : e.rel = rel

(***************************************************************************)
(* scan_worker.py: nodes and the result tree                               *)
(***************************************************************************)

\* fs_model.PathNode without its children list (kept in a separate map)
PathNode(rel, type, size, rule_index, rule_ids) ==
    [rel_path |-> rel, type |-> type, size |-> size, rule_index |-> rule_index,
     rule_ids |-> rule_ids]

\* ScanWorker._build_node
NodeFor(e, result) ==
    PathNode(result.rel_path,
             e.type,
             IF e.type = "file" THEN e.size ELSE None,
             result.decision.rule_index,
             result.all_rule_indexes)

BuildNode(t, result) == NodeFor(EntryAt(t, result.rel_path), result)

\* tuple ordering of (PurePosixPath(key).parts, key)
RECURSIVE PartsLess(_, _)
PartsLess(p, q) ==
    IF Len(q) = 0 THEN FALSE
    ELSE IF Len(p) = 0 THEN TRUE
    ELSE IF p[1] # q[1] THEN StrLess(p[1], q[1])
    ELSE PartsLess(Tail(p), Tail(q))

OrderedKeyLess(a, b) == PartsLess(PathParts(a), PathParts(b))

\* sorted(keys, key=lambda key: (PurePosixPath(key).parts, key))
\* (each key paired with the number of keys that sort before it)
KeysByRank(ranked) ==
    [i \in 1..Cardinality(ranked) |-> (CHOOSE p \in ranked : p[1] = i - 1)[2]]

OrderedKeys(S) ==
    KeysByRank({<<Cardinality({y \in S : OrderedKeyLess(y, x)}), x>> : x \in S})

\* ScanWorker._create_virtual_parent: the missing ancestors of rel, nearest
\* first, as the `while current not in nodes` loop collects them
RECURSIVE MissingPaths(_, _)
MissingPaths(current, ns) ==
    IF current \notin DOMAIN ns /\ current # << >>
    THEN <<current>> \o MissingPaths(ParentKey(current), ns)
    ELSE << >>

\* ... and the nodes dict after it has stored a "dir" node for each of them
WithNodes(ns, missing) ==
    [k \in DOMAIN ns \cup {missing[i] : i \in 1..Len(missing)} |->
        IF k \in DOMAIN ns THEN ns[k] ELSE PathNode(k, "dir", None, None, << >>)]

WithVirtualParents(rel, ns) == WithNodes(ns, MissingPaths(rel, ns))

\* parent.children.append(node), parent being nodes[parent_rel] or, from
\* `nodes.get(rel_path, nodes[""])` of _create_virtual_parent, the root
Attach(ns, children, parent_rel, rel) ==
    LET parent == IF parent_rel \in DOMAIN ns THEN parent_rel ELSE << >>
        lists  == IF DOMAIN children = DOMAIN ns THEN children
                  ELSE [k \in DOMAIN ns |->
                           IF k \in DOMAIN children THEN children[k] ELSE << >>]
    IN  [nodes    |-> ns,
         children |-> [lists EXCEPT ![parent] = @ \o <<rel>>]]

\* one round of the `for rel_path in ordered_keys` loop of _build_tree
AttachOne(bt, parent_rel, rel) ==
    Attach(IF parent_rel \in DOMAIN bt.nodes THEN bt.nodes
           ELSE WithVirtualParents(parent_rel, bt.nodes),
           bt.children, parent_rel, rel)

\* the `for rel_path in ordered_keys` loop of _build_tree:
\* bt = [nodes, children], children mapping a key to its children list
\* (the rounds for keys[1..n] are the rounds for its first half, then the
\* rounds for its second half on what the first half left; no round starts
\* before nodes holds the root, which _run_scan stored at line 116)
RECURSIVE AttachAll(_, _)
AttachAll(keys, bt) ==
    IF keys = << >> \/ << >> \notin DOMAIN bt.nodes THEN bt
    ELSE IF Len(keys) = 1 THEN AttachOne(bt, ParentKey(keys[1]), keys[1])
    ELSE AttachAll(SubSeq(keys, Len(keys) \div 2 + 1, Len(keys)),
                   AttachAll(SubSeq(keys, 1, Len(keys) \div 2), bt))

\* the sort key (item.type != "dir", item.name.lower()) of _sort_children
ChildLess(ns, a, b) ==
    \/ (ns[a].type = "dir" /\ ns[b].type # "dir")
    \/ /\ (ns[a].type = "dir") = (ns[b].type = "dir")
       /\ StrLess(Lower(NameOf(a)), Lower(NameOf(b)))

\* node.children.sort(key=...): stable, so children with equal keys keep
\* their order
SortedList(ns, xs) ==
    LET Rank(i) ==
            Cardinality({j \in 1..Len(xs) :
                            \/ ChildLess(ns, xs[j], xs[i])
                            \/ (j < i /\ ~ChildLess(ns, xs[i], xs[j]))})
    IN  [r \in 1..Len(xs) |-> xs[CHOOSE i \in 1..Len(xs) : Rank(i) = r - 1]]

\* ScanWorker._sort_children, over every children list: directories before
\* files, then by lowercased name
SortChildren(bt) ==
    [nodes    |-> bt.nodes,
     children |-> [k \in DOMAIN bt.children |->
                      SortedList(bt.nodes, bt.children[k])]]

\* ScanWorker._build_tree: [roots, children, nodes]; roots is the returned
\* list(nodes[root_key].children), children the lists hanging off each node
TreeOf(bt) ==
    [roots |-> bt.children[<< >>], children |-> bt.children, nodes |-> bt.nodes]

BuildTree(ns) ==
    TreeOf(SortChildren(
        AttachAll(OrderedKeys(DOMAIN ns \ {<< >>}),
                  [nodes |-> ns, children |-> [k \in DOMAIN ns |-> << >>]])))

(***************************************************************************)
(* scan_worker.py: ScanWorker                                              *)
(***************************************************************************)

\* emit_interval of _run_scan
EmitInterval == 200

\* the pattern lists of the rules a worker is built with:
\*   []   [a]   ["", a]   [.]   [**/b/**, *]
ScanPatterns ==
    { << >>,
      << <<"a">> >>,
      << << >>, <<"a">> >>,
      << <<".">> >>,
      << <<"*", "*", "/", "b", "/", "*", "*">>, <<"*">> >> }

\* ScanStats (the clock readings start_time and end_time are left out)
ScanStats(scanned, matched, matched_bytes, files, folders) ==
    [scanned |-> scanned, matched |-> matched, matched_bytes |-> matched_bytes,
     files |-> files, folders |-> folders]

\* one emitted Qt signal
Signal(name, args) == [name |-> name, args |-> args]

\* progress.emit(files, folders, matches, bytes, elapsed, path) without elapsed
Progress(st, path) ==
    Signal("progress", <<st.files, st.folders, st.matched, st.matched_bytes, path>>)

DonePath == <<"d", "o", "n", "e">>

\* positions of the worker thread
WaitPcs == {"dir_wait", "dir_poll", "entry_wait", "entry_poll"}
RunPcs  == {"dir_cancel", "entry_cancel", "process", "finish"} \cup WaitPcs
EndPcs  == {"done", "raised"}

\* entries = list(dirnames) + filenames of the i-th triple
Entries(i) == walk[i].dirnames \o walk[i].filenames

\* where the worker is: the os.walk triple, the entry in it, and the statement
WorkerAt == <<walk_i, entry_j, pc>>

\* the worker's place at a request that has not been made
NotYet == <<0, 0, "none">>

ScanInit ==
    /\ tree \in {i \in 1..Len(Trees) : Trees[i] # LargeTree}
    /\ walk = << >>
    /\ root_exists \in BOOLEAN
    /\ cancel_requested = FALSE
    /\ pause_event = TRUE
    /\ pc = "idle"
    /\ blocked = FALSE
    /\ walk_i = 0
    /\ entry_j = 0
    /\ nodes = << >>
    /\ stats = ScanStats(0, 0, 0, 0, 0)
    /\ signals = << >>
    /\ payload = None
    /\ ui = [pc |-> "idle", cancel_in_run |-> FALSE, cancel_paused |-> FALSE,
             cancel_in_wait |-> FALSE, cancel_at |-> NotYet, pause_at |-> NotYet,
             resumed_in_wait |-> FALSE]

unchangedInput == <<tree, root_exists, rules, case_sensitive, rel_path, decision,
                    all_indexes, parseVars, windowVars>>
unchangedRun == <<unchangedInput, walk, prepared, blocked>>

\* ---- the UI thread

\* request_cancel, first statement: self._cancel_requested = True
RequestCancel ==
    /\ ui.pc = "idle"
    /\ cancel_requested' = TRUE
    /\ ui' = [pc |-> "cancel_set",
              cancel_in_run  |-> ui.cancel_in_run \/ pc \in RunPcs,
              cancel_paused  |-> ui.cancel_paused \/ (pc \in RunPcs /\ ~pause_event),
              cancel_in_wait |-> ui.cancel_in_wait
                                 \/ (pc \in {"dir_wait", "entry_wait"} /\ blocked
                                     /\ ~pause_event),
              cancel_at |-> IF cancel_requested THEN ui.cancel_at ELSE WorkerAt,
              pause_at |-> ui.pause_at,
              resumed_in_wait |-> ui.resumed_in_wait]
    /\ UNCHANGED <<pause_event, pc, walk_i, entry_j, nodes, stats, signals, payload,
                   unchangedRun>>

\* request_cancel, second statement: self._pause_event.set()
RequestCancelSet ==
    /\ ui.pc = "cancel_set"
    /\ pause_event' = TRUE
    /\ ui' = [ui EXCEPT !.pc = "idle"]
    /\ UNCHANGED <<cancel_requested, pc, walk_i, entry_j, nodes, stats, signals,
                   payload, unchangedRun>>

\* request_pause: self._pause_event.clear()
RequestPause ==
    /\ ui.pc = "idle"
    /\ pause_event
    /\ pause_event' = FALSE
    /\ ui' = [ui EXCEPT !.pause_at = WorkerAt]
    /\ UNCHANGED <<cancel_requested, pc, walk_i, entry_j, nodes, stats, signals,
                   payload, unchangedRun>>

\* request_resume: self._pause_event.set()
RequestResume ==
    /\ ui.pc = "idle"
    /\ ~pause_event
    /\ pause_event' = TRUE
    /\ ui' = [ui EXCEPT !.pause_at = NotYet,
                         !.resumed_in_wait = @ \/ (pc \in WaitPcs /\ blocked)]
    /\ UNCHANGED <<cancel_requested, pc, walk_i, entry_j, nodes, stats, signals,
                   payload, unchangedRun>>

\* ---- the worker thread

\* StartEmit handing over whatever the run has, cancelled or not
StartEmitAlways(p) == Signal("finished", p)

\* start(): what is emitted for the value _run_scan returned
StartEmit(p) ==
    IF p = None THEN Signal("cancelled", << >>) ELSE Signal("finished", p)

\* Start without the check that the root exists
StartUnchecked ==
    /\ pc = "idle"
    /\ pc' = "dir_cancel"
    /\ prepared' = Prepared(rules)
    /\ walk' = OsWalk(Trees[tree])
    /\ walk_i' = 1
    /\ nodes' = (<< >> :> PathNode(<< >>, "dir", None, None, << >>))
    /\ UNCHANGED <<cancel_requested, pause_event, ui, entry_j, stats, signals,
                   payload, blocked, unchangedInput>>

\* start() called; _run_scan up to the first os.walk triple.  A missing root
\* raises FileNotFoundError, which start() does not catch.
Start ==
    /\ pc = "idle"
    /\ IF ~root_exists
       THEN /\ pc' = "raised"
            /\ UNCHANGED <<walk_i, nodes, walk, prepared>>
       ELSE /\ pc' = "dir_cancel"
            /\ prepared' = Prepared(rules)
            /\ walk' = OsWalk(Trees[tree])
            /\ walk_i' = 1
            /\ nodes' = (<< >> :> PathNode(<< >>, "dir", None, None, << >>))
    /\ UNCHANGED <<cancel_requested, pause_event, ui, entry_j, stats, signals,
                   payload, blocked, unchangedInput>>

\* `return None` in _run_scan, then start() emits for it
ReturnNone ==
    /\ pc' = "done"
    /\ payload' = None
    /\ signals' = Append(signals, StartEmit(None))
    /\ UNCHANGED <<walk_i, entry_j>>

\* the for loop over os.walk moves on to the next triple, or ends
NextTriple ==
    IF walk_i < Len(walk)
    THEN /\ pc' = "dir_cancel"
         /\ walk_i' = walk_i + 1
         /\ entry_j' = 0
    ELSE /\ pc' = "finish"
         /\ UNCHANGED <<walk_i, entry_j>>

\* the for loop over entries moves on to the next name, or ends
NextEntry ==
    IF entry_j < Len(Entries(walk_i))
    THEN /\ pc' = "entry_cancel"
         /\ entry_j' = entry_j + 1
         /\ UNCHANGED walk_i
    ELSE NextTriple

\* line 125: `if self._cancel_requested: return None` for a directory
DirCancelCheck ==
    /\ pc = "dir_cancel"
    /\ IF cancel_requested
       THEN ReturnNone
       ELSE /\ pc' = "dir_wait"
            /\ UNCHANGED <<walk_i, entry_j, signals, payload>>
    /\ UNCHANGED <<cancel_requested, pause_event, ui, nodes, stats, unchangedRun>>

\* _wait_if_paused, `self._pause_event.wait(timeout=0.1)`: true at once when
\* the event is set, false after the timeout otherwise
DirWait ==
    /\ pc = "dir_wait"
    /\ IF pause_event
       THEN /\ NextEntry
            /\ blocked' = FALSE
       ELSE /\ pc' = "dir_poll"
            /\ blocked' = TRUE
            /\ UNCHANGED <<walk_i, entry_j>>
    /\ UNCHANGED <<cancel_requested, pause_event, ui, nodes, stats, signals, payload,
                   unchangedInput, walk, prepared>>

\* _wait_if_paused, `if self._cancel_requested: return False` after a timeout
DirPoll ==
    /\ pc = "dir_poll"
    /\ IF cancel_requested
       THEN ReturnNone
       ELSE /\ pc' = "dir_wait"
            /\ UNCHANGED <<walk_i, entry_j, signals, payload>>
    /\ UNCHANGED <<cancel_requested, pause_event, ui, nodes, stats, unchangedRun>>

\* line 133 without the test of the cancel flag
EntryCancelUnchecked ==
    /\ pc = "entry_cancel"
    /\ pc' = "entry_wait"
    /\ UNCHANGED <<walk_i, entry_j, signals, payload>>
    /\ UNCHANGED <<cancel_requested, pause_event, ui, nodes, stats, unchangedRun>>

\* line 133: `if self._cancel_requested: return None` for an entry
EntryCancelCheck ==
    /\ pc = "entry_cancel"
    /\ IF cancel_requested
       THEN ReturnNone
       ELSE /\ pc' = "entry_wait"
            /\ UNCHANGED <<walk_i, entry_j, signals, payload>>
    /\ UNCHANGED <<cancel_requested, pause_event, ui, nodes, stats, unchangedRun>>

\* line 135: the wait of _wait_if_paused for an entry
EntryWait ==
    /\ pc = "entry_wait"
    /\ pc' = IF pause_event THEN "process" ELSE "entry_poll"
    /\ blocked' = ~pause_event
    /\ UNCHANGED <<cancel_requested, pause_event, ui, walk_i, entry_j, nodes, stats,
                   signals, payload, unchangedInput, walk, prepared>>

\* line 274 for an entry, going on to the next entry when the wait timed out
EntryPollSkipping ==
    /\ pc = "entry_poll"
    /\ IF cancel_requested
       THEN ReturnNone
       ELSE /\ NextEntry
            /\ UNCHANGED <<signals, payload>>
    /\ UNCHANGED <<cancel_requested, pause_event, ui, nodes, stats, unchangedRun>>

\* line 274 for an entry
EntryPoll ==
    /\ pc = "entry_poll"
    /\ IF cancel_requested
       THEN ReturnNone
       ELSE /\ pc' = "entry_wait"
            /\ UNCHANGED <<walk_i, entry_j, signals, payload>>
    /\ UNCHANGED <<cancel_requested, pause_event, ui, nodes, stats, unchangedRun>>

\* StatsAfter adding the size of every file, matched or not
StatsAfterAllBytes(st, node, result) ==
    ScanStats(st.scanned + 1,
              st.matched + (IF result.decision.matched THEN 1 ELSE 0),
              st.matched_bytes
                + (IF node.type = "file" /\ node.size # None
                   THEN node.size[1] ELSE 0),
              st.files + (IF node.type = "file" THEN 1 ELSE 0),
              st.folders + (IF node.type = "file" THEN 0 ELSE 1))

\* lines 147-157: the statistics after recording node for result
StatsAfter(st, node, result) ==
    ScanStats(st.scanned + 1,
              st.matched + (IF result.decision.matched THEN 1 ELSE 0),
              st.matched_bytes
                + (IF result.decision.matched /\ node.type = "file" /\ node.size # None
                   THEN node.size[1] ELSE 0),
              st.files + (IF node.type = "file" THEN 1 ELSE 0),
              st.folders + (IF node.type = "file" THEN 0 ELSE 1))

\* a worker that reports the first entry and entry emit_interval, and no
\* later multiple of it
EntryProgressOnce(st, path) ==
    IF st.scanned = EmitInterval \/ st.scanned = 1
    THEN <<Progress(st, path)>> ELSE << >>

\* lines 158-167: the progress event after an entry, when one is due
EntryProgress(st, path) ==
    IF st.scanned % EmitInterval = 0 \/ st.scanned = 1
    THEN <<Progress(st, path)>> ELSE << >>

\* lines 146-167 for the node built from result
Record(node, st) ==
    /\ nodes' = [k \in DOMAIN nodes \cup {node.rel_path} |->
                    IF k = node.rel_path THEN node ELSE nodes[k]]
    /\ stats' = st
    /\ signals' = signals \o EntryProgress(st, node.rel_path)

RecordNode(node, result) == Record(node, StatsAfter(stats, node, result))

\* lines 139-167 once evaluate_path has returned or raised: ValueError (and
\* OSError) skip the entry, any other exception leaves _run_scan and start()
Evaluated_Entry(result) ==
    IF result.raised = "ValueError"
    THEN /\ NextEntry
         /\ UNCHANGED <<nodes, stats, signals>>
    ELSE IF result.raised # Returned
    THEN /\ pc' = "raised"
         /\ UNCHANGED <<walk_i, entry_j, nodes, stats, signals>>
    ELSE /\ NextEntry
         /\ RecordNode(BuildNode(Trees[tree], result), result)

\* lines 138-167: one entry is evaluated, recorded and counted
ProcessEntry ==
    /\ pc = "process"
    /\ Evaluated_Entry(EvaluatePath(prepared, case_sensitive,
                                    ChildKey(walk[walk_i].dirpath,
                                             Entries(walk_i)[entry_j])))
    /\ UNCHANGED <<cancel_requested, pause_event, ui, payload, unchangedRun>>

\* return ScanPayload(...), then start() emits for it
ReturnPayload(p) ==
    /\ payload' = Some(p)
    /\ signals' = signals \o <<Progress(stats, DonePath), StartEmit(Some(p))>>

\* lines 169-182 and start(): the final progress event, the tree, the
\* payload, and the signal for it
Finish ==
    /\ pc = "finish"
    /\ ReturnPayload([nodes |-> BuildTree(nodes), stats |-> stats])
    /\ pause_event' = TRUE
    /\ pc' = "done"
    /\ UNCHANGED <<cancel_requested, ui, walk_i, entry_j, nodes, stats, unchangedRun>>

\* ---- _build_tree on its own

\* the keys the node maps handed to _build_tree are drawn from:
\*   A, b, b/a, b/c, b/c/a, c, c/a
TreeKeys ==
    { <<"A">>, <<"b">>, <<"b", "/", "a">>, <<"b", "/", "c">>,
      <<"b", "/", "c", "/", "a">>, <<"c">>, <<"c", "/", "a">> }

\* the dict `nodes` holding the root's node under "" and a node under each
\* key of S; a key with another of the keys below it is a directory
NodeMapOf(S) ==
    [k \in S \cup {<< >>} |->
        PathNode(k,
                 IF k = << >> \/ \E q \in TreeKeys : ParentKey(q) = k
                 THEN "dir" ELSE "file",
                 None, None, << >>)]

NodeMaps == {NodeMapOf(S) : S \in SUBSET TreeKeys}

\* self._build_tree(nodes, root_key) called on the node map
CallBuildTree ==
    /\ payload = None
    /\ payload' = Some([nodes |-> BuildTree(nodes), stats |-> stats])
    /\ UNCHANGED <<tree, walk, root_exists, cancel_requested, pause_event, pc,
                   blocked, walk_i, entry_j, nodes, stats, signals, ui,
                   matchVars, parseVars, windowVars>>

(***************************************************************************)
(* MainWindow: the scanning lifecycle (main_window.py)                     *)
(*                                                                         *)
(* The handlers of the window run one at a time on the UI thread.  A       *)
(* signal a ScanWorker or its QThread emits reaches a handler of the       *)
(* window through a queued connection: it waits in `events` until the UI   *)
(* thread is back in its event loop.  Here a worker is seen from outside:  *)
(* it is executing start(), has returned from it, or its thread has        *)
(* exited.  The root and the rules file are taken as selected.             *)
(***************************************************************************)

\* the number of scans started in one behaviour
MaxScans == 3

\* a ScanWorker and the QThread it was moved to:
\*   state: "executing" (start() is running), "returned" (start() is over,
\*          the thread is still alive), "exited" (QThread.finished emitted)
\*   quit:  QThread.quit() has been called
Worker(state, cancel, pause, quit) ==
    [state |-> state, cancel_requested |-> cancel, pause_event |-> pause,
     quit |-> quit]

\* ScanWorker.request_resume / request_cancel / request_pause
WorkerRequestResume(wk) == [wk EXCEPT !.pause_event = TRUE]
WorkerRequestCancel(wk) ==
    [wk EXCEPT !.cancel_requested = TRUE, !.pause_event = TRUE]
WorkerRequestPause(wk) == [wk EXCEPT !.pause_event = FALSE]

\* MainWindow.__init__: no scan yet
NewWindow(has_rules) ==
    [scan_worker |-> None, scan_thread |-> None, scan_running |-> FALSE,
     scan_paused |-> FALSE, controls_enabled |-> TRUE, has_rules |-> has_rules]

WindowIdle ==
    /\ win = NewWindow(TRUE)
    /\ workers = << >>
    /\ events = << >>

WindowInit ==
    /\ win \in {NewWindow(has_rules) : has_rules \in BOOLEAN}
    /\ workers = << >>
    /\ events = << >>

\* a queued delivery: worker.finished / worker.cancelled of worker w to
\* _on_scan_finished / _on_scan_cancelled and thread.quit, or
\* thread.finished of its thread to _on_scan_thread_finished
Event(kind, w) == [kind |-> kind, w |-> w]

\* what start() emits as it returns: finished, cancelled, or nothing when
\* _run_scan raised
Emitted(outcome, w) ==
    IF outcome = "raised" THEN << >> ELSE <<Event(outcome, w)>>

\* how QThread.wait(3000) can end while start() is executing: the worker
\* returns in time (cancelled; finished, when it was past its last
\* cancellation check; or raised), or the 3000 ms pass first
WaitOutcomes == {"cancelled", "finished", "raised", "timeout"}

\* the state the handlers work on
Window(w, ws, es) == [win |-> w, workers |-> ws, events |-> es]

\* _cancel_active_scan, lines 444-446
CancelRequested(st) ==
    IF st.win.scan_worker = None THEN st
    ELSE [st EXCEPT !.workers[st.win.scan_worker[1]] =
                        WorkerRequestCancel(WorkerRequestResume(@))]

\* self._scan_thread.wait(3000) on thread t after quit(): its result is
\* not looked at
Waited(st, t, outcome) ==
    IF st.workers[t].state = "executing"
    THEN (IF outcome = "timeout" THEN st
          ELSE [st EXCEPT !.workers[t].state = "exited",
                          !.events = @ \o Emitted(outcome, t)
                                       \o <<Event("thread_finished", t)>>])
    ELSE IF st.workers[t].state = "returned"
    THEN [st EXCEPT !.workers[t].state = "exited",
                    !.events = Append(@, Event("thread_finished", t))]
    ELSE st

\* _cancel_active_scan, lines 447-453
QuitAndWait(st, t, outcome) ==
    [Waited([st EXCEPT !.workers[t].quit = TRUE], t, outcome)
        EXCEPT !.win.scan_thread = None,
               !.win.scan_worker = None,
               !.win.scan_running = FALSE]

\* MainWindow._cancel_active_scan(wait=True)
CancelActive(st, outcome) ==
    IF st.win.scan_thread = None THEN st
    ELSE QuitAndWait(st, st.win.scan_thread[1], outcome)

CancelActiveScan(st, outcome) ==
    [CancelActive(CancelRequested(st), outcome) EXCEPT !.win.scan_paused = FALSE]

\* _start_scan, lines 402-440, once _cancel_active_scan has returned
Started(st) ==
    IF ~st.win.has_rules
    THEN [st EXCEPT !.win.controls_enabled = TRUE, !.win.scan_running = FALSE]
    ELSE [st EXCEPT !.win.controls_enabled = FALSE,
                    !.win.scan_running = TRUE,
                    !.win.scan_paused = FALSE,
                    !.workers = Append(@, Worker("executing", FALSE, TRUE, FALSE)),
                    !.win.scan_worker = Some(Len(st.workers) + 1),
                    !.win.scan_thread = Some(Len(st.workers) + 1)]

\* MainWindow._start_scan
StartScan(st, outcome) == Started(CancelActiveScan(st, outcome))

\* a handler has run from st to the state next
Handled(next) ==
    /\ win' = next.win
    /\ workers' = next.workers
    /\ events' = next.events
    /\ UNCHANGED <<matchVars, parseVars, scanVars>>

\* ---- the user

\* scan_action triggered.  _set_scan_running and _update_action_states keep
\* the action enabled exactly when the controls are enabled and no scan is
\* taken to be running.  The user acts when no delivery is waiting.
ScanTriggered ==
    /\ events = << >>
    /\ win.controls_enabled /\ ~win.scan_running
    /\ Len(workers) < MaxScans
    /\ \E outcome \in WaitOutcomes :
           Handled(StartScan(Window(win, workers, events), outcome))

\* MainWindow._cancel_scan, from the dialog's Cancel button (while no scan
\* is taken to be running it only hides the dialog)
CancelScan ==
    /\ events = << >>
    /\ win.scan_running
    /\ \E outcome \in WaitOutcomes :
           Handled([CancelActiveScan(Window([win EXCEPT !.scan_paused = FALSE],
                                            workers, events), outcome)
                       EXCEPT !.win.controls_enabled = TRUE])

\* MainWindow._pause_scan
PauseScan ==
    /\ events = << >>
    /\ win.scan_running /\ win.scan_worker # None /\ ~win.scan_paused
    /\ Handled([Window(win, workers, events) EXCEPT
                   !.win.scan_paused = TRUE,
                   !.win.controls_enabled = TRUE,
                   !.workers[win.scan_worker[1]] = WorkerRequestPause(@)])

\* MainWindow._resume_scan
ResumeScan ==
    /\ events = << >>
    /\ win.scan_running /\ win.scan_paused /\ win.scan_worker # None
    /\ Handled([Window(win, workers, events) EXCEPT
                   !.win.scan_paused = FALSE,
                   !.win.controls_enabled = FALSE,
                   !.workers[win.scan_worker[1]] = WorkerRequestResume(@)])

\* ---- the worker threads

\* ScanWorker.start returns on its thread: finished or cancelled is emitted
\* (cancelled only after request_cancel), or _run_scan raised and nothing
\* is.  Where the worker stands inside _run_scan is not followed here, so
\* neither is whether a pause holds it.
WorkerReturns ==
    \E w \in 1..Len(workers) : \E outcome \in WaitOutcomes \ {"timeout"} :
        /\ workers[w].state = "executing"
        /\ outcome = "cancelled" => workers[w].cancel_requested
        /\ Handled([Window(win, workers, events) EXCEPT
                       !.workers[w].state = "returned",
                       !.events = @ \o Emitted(outcome, w)])

\* the thread leaves its event loop once quit() was called and start() is
\* over; QThread.finished is emitted
ThreadExits ==
    \E w \in 1..Len(workers) :
        /\ workers[w].state = "returned"
        /\ workers[w].quit
        /\ Handled([Window(win, workers, events) EXCEPT
                       !.workers[w].state = "exited",
                       !.events = Append(@, Event("thread_finished", w))])

\* ---- deliveries to the UI thread

\* what _on_scan_finished and _on_scan_cancelled do to the window, followed
\* by the thread.quit connected to the same signal
ScanEnded(w) ==
    Handled([Window(win, workers, Tail(events)) EXCEPT
                !.win.controls_enabled = TRUE,
                !.win.scan_running = FALSE,
                !.win.scan_paused = FALSE,
                !.workers[w].quit = TRUE])

\* MainWindow._on_scan_finished
OnScanFinished ==
    /\ events # << >>
    /\ Head(events).kind = "finished"
    /\ ScanEnded(Head(events).w)

\* MainWindow._on_scan_cancelled
OnScanCancelled ==
    /\ events # << >>
    /\ Head(events).kind = "cancelled"
    /\ ScanEnded(Head(events).w)

\* MainWindow._on_scan_thread_finished: the references are cleared whichever
\* thread has finished
OnScanThreadFinished ==
    /\ events # << >>
    /\ Head(events).kind = "thread_finished"
    /\ Handled([Window(win, workers, Tail(events)) EXCEPT
                   !.win.scan_thread = None,
                   !.win.scan_worker = None,
                   !.win.scan_running = FALSE,
                   !.win.scan_paused = FALSE])

(***************************************************************************)
(* Specifications                                                          *)
(***************************************************************************)

\* the parts of the state a specification does not exercise
MatchIdle ==
    /\ rules = << >>
    /\ prepared = << >>
    /\ case_sensitive = FALSE
    /\ rel_path = << >>
    /\ decision = NoDecision
    /\ all_indexes = NoIndexes

ScanIdle ==
    /\ ScanInit
    /\ tree = 1
    /\ root_exists

\* MatchEngine built from a rule list and queried
MatchNext == CallMatchPath \/ CallMatchingRuleIndexes \/ CallEvaluatePath
MatchEngineInit == MatchInit /\ ParseInit /\ ScanIdle /\ WindowIdle
SpecMatch == MatchEngineInit /\ [][MatchNext]_vars

\* parse_filter_file reading a file line by line
ParseNext ==
    ParseBlank \/ ParseComment \/ ParseSkip \/ ParsePlus \/ ParseRule \/ ParseReturn
ParseFileInit == ParseInit /\ MatchIdle /\ ScanIdle /\ WindowIdle
SpecParse == ParseFileInit /\ [][ParseNext]_vars

\* a ScanWorker on its thread, and the UI thread calling its request methods
ScanNext ==
    \/ Start \/ DirCancelCheck \/ DirWait \/ DirPoll
    \/ EntryCancelCheck \/ EntryWait \/ EntryPoll \/ ProcessEntry \/ Finish
    \/ RequestCancel \/ RequestCancelSet \/ RequestPause \/ RequestResume

\* ScanWorker(root_path=..., rules=..., case_sensitive=False)
ScanWorkerInit ==
    /\ ScanInit
    /\ rules \in {RulesOf(pats) : pats \in ScanPatterns}
    /\ prepared = << >>
    /\ case_sensitive = FALSE
    /\ rel_path = << >>
    /\ decision = NoDecision
    /\ all_indexes = NoIndexes
    /\ ParseInit
    /\ WindowIdle

SpecScan == ScanWorkerInit /\ [][ScanNext]_vars

\* a ScanWorker that nothing interrupts, on the large tree
LargeScanNext ==
    \/ Start \/ DirCancelCheck \/ DirWait
    \/ EntryCancelCheck \/ EntryWait \/ ProcessEntry \/ Finish

LargeScanInit ==
    /\ tree = Len(Trees)
    /\ walk = << >>
    /\ root_exists = TRUE
    /\ cancel_requested = FALSE
    /\ pause_event = TRUE
    /\ pc = "idle"
    /\ blocked = FALSE
    /\ walk_i = 0
    /\ entry_j = 0
    /\ nodes = << >>
    /\ stats = ScanStats(0, 0, 0, 0, 0)
    /\ signals = << >>
    /\ payload = None
    /\ ui = [pc |-> "idle", cancel_in_run |-> FALSE, cancel_paused |-> FALSE,
             cancel_in_wait |-> FALSE, cancel_at |-> NotYet, pause_at |-> NotYet,
             resumed_in_wait |-> FALSE]
    /\ rules \in {RulesOf(pats) :
                    pats \in {p \in ScanPatterns : Len(p) # 1 \/ p = << <<".">> >>}}
    /\ prepared = << >>
    /\ case_sensitive = FALSE
    /\ rel_path = << >>
    /\ decision = NoDecision
    /\ all_indexes = NoIndexes
    /\ ParseInit
    /\ WindowIdle

SpecScanLarge == LargeScanInit /\ [][LargeScanNext]_vars

\* _build_tree applied to node maps with and without missing ancestors
BuildTreeInit ==
    /\ nodes \in NodeMaps
    /\ tree = 1
    /\ walk = << >>
    /\ root_exists = TRUE
    /\ cancel_requested = FALSE
    /\ pause_event = TRUE
    /\ pc = "idle"
    /\ blocked = FALSE
    /\ walk_i = 0
    /\ entry_j = 0
    /\ stats = ScanStats(0, 0, 0, 0, 0)
    /\ signals = << >>
    /\ payload = None
    /\ ui = [pc |-> "idle", cancel_in_run |-> FALSE, cancel_paused |-> FALSE,
             cancel_in_wait |-> FALSE, cancel_at |-> NotYet, pause_at |-> NotYet,
             resumed_in_wait |-> FALSE]
    /\ MatchIdle
    /\ ParseInit
    /\ WindowIdle

SpecTree == BuildTreeInit /\ [][CallBuildTree]_vars

\* the MainWindow, its user, and the scan workers it starts
WindowNext ==
    \/ ScanTriggered \/ CancelScan \/ PauseScan \/ ResumeScan
    \/ WorkerReturns \/ ThreadExits
    \/ OnScanFinished \/ OnScanCancelled \/ OnScanThreadFinished
MainWindowInit == WindowInit /\ MatchIdle /\ ParseInit /\ ScanIdle
SpecWindow == MainWindowInit /\ [][WindowNext]_vars

(***************************************************************************)
(* Properties                                                              *)
(***************************************************************************)

\* ---- MatchEngine (SpecMatch)

\* the components the engine tests for path: those of the normalised path,
\* lowercased unless the engine is case sensitive
TestParts(path, cs) ==
    PathParts(IF cs THEN OrDot(Strip(path, {"/"}))
              ELSE Lower(OrDot(Strip(path, {"/"}))))

\* rule satisfies path: its pattern is not empty and one of the variants of
\* the pattern (lowercased unless case sensitive) matches the path
VariantSet(vs) == {vs[i] : i \in 1..Len(vs)}

Satisfies(rule, cs, path) ==
    /\ rule.pattern # << >>
    /\ \E v \in VariantSet(ExpandPatterns(IF cs THEN rule.pattern
                                          ELSE Lower(rule.pattern))) :
           PurePathMatch(TestParts(path, cs), v) = "match"

\* the 0-based positions, in the original list, of the rules satisfying path
SatisfyingIndexes(rs, cs, path) ==
    {k \in 0..(Len(rs) - 1) : Satisfies(rs[k + 1], cs, path)}

Matched == decision.raised = Returned /\ decision.matched

\* C1: when match_path or evaluate_path reports matched, rule_index is the
\* lowest index among the rules satisfying the path -- no rule with a
\* smaller index satisfies it -- and it is the first element of
\* matching_rule_indexes for that path.
C1_FirstMatchWins ==
    Matched =>
        /\ decision.rule_index # None
        /\ decision.rule_index[1] \in SatisfyingIndexes(rules, case_sensitive, rel_path)
        /\ \A k \in SatisfyingIndexes(rules, case_sensitive, rel_path) :
               decision.rule_index[1] <= k
        /\ MatchingRuleIndexes(prepared, case_sensitive, rel_path).matches # << >>
        /\ MatchingRuleIndexes(prepared, case_sensitive, rel_path).matches[1]
               = decision.rule_index[1]
        /\ all_indexes.raised = Returned =>
               /\ all_indexes.matches # << >>
               /\ all_indexes.matches[1] = decision.rule_index[1]

\* a path that two rules satisfy was matched, and the engine reported one
C1_Witness ==
    /\ Matched
    /\ Cardinality(SatisfyingIndexes(rules, case_sensitive, rel_path)) >= 2

\* C2: a rule with an empty pattern is never reported -- its index occurs
\* neither in matching_rule_indexes / all_rule_indexes nor as rule_index --
\* and every other rule is still reported under its position in the
\* original rule list: the indexes returned are exactly the original
\* positions of the rules satisfying the path, and match_path or
\* evaluate_path, called on a path some rule satisfies, reports a rule
\* together with that rule's own position.  (Calls ended by the ValueError
\* of an invalid pattern are left aside.)
C2_EmptyPatternNeverMatches ==
    /\ all_indexes.raised = Returned =>
           /\ \A n \in 1..Len(all_indexes.matches) :
                  /\ all_indexes.matches[n] \in 0..(Len(rules) - 1)
                  /\ rules[all_indexes.matches[n] + 1].pattern # << >>
                  /\ all_indexes.matches[n]
                         \in SatisfyingIndexes(rules, case_sensitive, rel_path)
           /\ \A k \in SatisfyingIndexes(rules, case_sensitive, rel_path) :
                  \E n \in 1..Len(all_indexes.matches) : all_indexes.matches[n] = k
    /\ Matched =>
           /\ decision.rule_index[1] \in 0..(Len(rules) - 1)
           /\ rules[decision.rule_index[1] + 1].pattern # << >>
    /\ (/\ decision.raised \in {Returned, "IndexError"}
        /\ SatisfyingIndexes(rules, case_sensitive, rel_path) # {}) =>
           /\ Matched
           /\ decision.rule = Some(rules[decision.rule_index[1] + 1])

\* the pattern **/b/**
AnywhereUnderB == <<"*", "*", "/", "b", "/", "*", "*">>

\* path names an entry inside a directory named name: name is one of its
\* components other than the last
LiesInside(path, name) ==
    \E i \in 1..(Len(TestParts(path, TRUE)) - 1) : TestParts(path, TRUE)[i] = name

\* path is the bare directory name directly under the root
IsBareDir(path, name) == TestParts(path, TRUE) = <<name>>

\* rule k (0-based) is reported for the call just made, by whichever of the
\* three methods was called
ReportsRule(k) ==
    /\ all_indexes.raised = Returned =>
           \E n \in 1..Len(all_indexes.matches) : all_indexes.matches[n] = k
    /\ decision.raised = Returned => decision.matched

\* C13: a rule with pattern **/X/** (here X = b) matches every entry that
\* lies inside a directory named X, at any depth, and also the bare
\* directory X directly under the root.  (Calls that raise because of
\* another rule are left aside.)
C13_DoubleStarDirectory ==
    \A k \in 1..Len(rules) :
        (/\ rules[k].pattern = AnywhereUnderB
         /\ rel_path # << >>
         /\ (LiesInside(rel_path, <<"b">>) \/ IsBareDir(rel_path, <<"b">>))) =>
            ReportsRule(k - 1)

\* the positions of the rules whose pattern pathlib rejects (here: ".")
InvalidRuleIndexes(rs, cs) ==
    {k \in 0..(Len(rs) - 1) :
        /\ rs[k + 1].pattern # << >>
        /\ \E v \in VariantSet(ExpandPatterns(IF cs THEN rs[k + 1].pattern
                                               ELSE Lower(rs[k + 1].pattern))) :
               PurePathMatch(TestParts(<<"a">>, cs), v) = "ValueError"}

\* the indexes a call reports, as a set
ReportedIndexes ==
    {all_indexes.matches[n] : n \in 1..Len(all_indexes.matches)}

\* C14: a rule with an invalid pattern is treated as never matching: no
\* call of match_path, matching_rule_indexes or evaluate_path ends with the
\* pattern error, and what a call returns is what the other rules give: the
\* path is matched exactly when some rule with a valid pattern is satisfied
\* by it, and the indexes reported are exactly those of such rules.
C14_InvalidPatternNeverMatches ==
    /\ decision.raised # "ValueError"
    /\ all_indexes.raised # "ValueError"
    /\ decision.raised = Returned =>
           decision.matched =
               (SatisfyingIndexes(rules, case_sensitive, rel_path) # {})
    /\ all_indexes.raised = Returned =>
           ReportedIndexes = SatisfyingIndexes(rules, case_sensitive, rel_path)

\* a letter in its other case; any other character unchanged
SwapCase(c) ==
    CASE c = "a" -> "A" [] c = "b" -> "B" [] c = "c" -> "C"
      [] c = "A" -> "a" [] c = "B" -> "b" [] c = "C" -> "c" [] OTHER -> c

\* the strings that differ from text only in the case of letters
RECURSIVE CaseVariants(_)
CaseVariants(text) ==
    IF text = << >> THEN {<< >>}
    ELSE {<<h>> \o t : h \in {text[1], SwapCase(text[1])},
                       t \in CaseVariants(Tail(text))}

\* the rule list with the pattern of rule k replaced
WithPattern(rs, k, pattern) == [rs EXCEPT ![k].pattern = pattern]

\* two outcomes of match_path agree: both raise the same way, or both
\* return the same matched flag and rule_index
SameDecision(d, e) ==
    /\ d.raised = e.raised
    /\ d.matched = e.matched
    /\ d.rule_index = e.rule_index

\* C12: with case_sensitive disabled, match_path and matching_rule_indexes
\* give the same result when the case of letters of the path, or of any
\* one pattern, is changed.
C12_CaseInsensitive ==
    ~case_sensitive =>
        /\ decision.raised # Pending =>
               /\ \A path \in CaseVariants(rel_path) :
                      SameDecision(MatchPath(prepared, FALSE, path), decision)
               /\ \A k \in 1..Len(rules) :
                      \A pattern \in CaseVariants(rules[k].pattern) :
                          SameDecision(
                              MatchPath(Prepared(WithPattern(rules, k, pattern)),
                                        FALSE, rel_path),
                              decision)
        /\ all_indexes.raised \in {Returned, "ValueError"} =>
               /\ \A path \in CaseVariants(rel_path) :
                      MatchingRuleIndexes(prepared, FALSE, path) = all_indexes
               /\ \A k \in 1..Len(rules) :
                      \A pattern \in CaseVariants(rules[k].pattern) :
                          MatchingRuleIndexes(
                              Prepared(WithPattern(rules, k, pattern)),
                              FALSE, rel_path) = all_indexes

\* the upper-case pattern **/A matched the lower-case path c/a
C12_Witness ==
    /\ ~case_sensitive
    /\ Len(rules) = 1
    /\ rules[1].pattern = <<"*", "*", "/", "A">>
    /\ rel_path = <<"c", "/", "a">>
    /\ Matched
    /\ decision.rule_index = Some(0)

\* ---- ScanWorker (SpecScan)

HasSignal(name) == \E i \in 1..Len(signals) : signals[i].name = name
CountSignal(names) == Cardinality({i \in 1..Len(signals) : signals[i].name \in names})
TerminalSignals == {"finished", "cancelled", "error"}

\* C3: once request_cancel has been called on a running or paused scan,
\* the run never emits finished, and when it ends it has reported cancelled.
C3_CancelNeverFinishes ==
    ui.cancel_in_run =>
        /\ ~HasSignal("finished")
        /\ pc = "done" => HasSignal("cancelled")

\* C4: request_cancel called while the worker is held in the pause-wait
\* (pause requested, not resumed) ends the run as cancelled, never finished.
C4_CancelWhilePausedCancels ==
    ui.cancel_in_wait =>
        /\ ~HasSignal("finished")
        /\ pc = "done" => HasSignal("cancelled")

\* C5: a run that has ended has signalled exactly one terminal outcome
\* (finished, cancelled or error), as its last signal, and a run on a
\* missing root has signalled error.
C5_OneTerminalOutcome ==
    pc \in EndPcs =>
        /\ CountSignal(TerminalSignals) = 1
        /\ signals[Len(signals)].name \in TerminalSignals
        /\ ~root_exists => signals[Len(signals)].name = "error"

\* C6: a run that ends as cancelled (_run_scan returned None) emits the
\* cancelled signal once, as its last signal, and no finished signal with a
\* payload, however many entries it had recorded.
C6_CancelledDeliversNoPayload ==
    /\ (pc = "done" /\ payload = None) =>
           /\ ~HasSignal("finished")
           /\ CountSignal({"cancelled"}) = 1
           /\ signals[Len(signals)].name = "cancelled"
    /\ HasSignal("cancelled") => (payload = None /\ ~HasSignal("finished"))

\* a run was cancelled after it had recorded entries
C6_Witness ==
    /\ pc = "done"
    /\ payload = None
    /\ stats.scanned >= 2
    /\ HasSignal("cancelled")

\* the keys held by a list of nodes
Keys(list) == {list[i] : i \in 1..Len(list)}

\* the nodes of a result tree: those in the root-level list and, level by
\* level, in the children lists below them
RECURSIVE ReachableFrom(_, _)
GrowReach(t, seen, more) ==
    IF more \subseteq seen THEN seen ELSE ReachableFrom(t, seen \cup more)
ReachableFrom(t, seen) ==
    GrowReach(t, seen, UNION {Keys(t.children[k]) : k \in seen})

Flattened(t) == ReachableFrom(t, Keys(t.roots))

\* how many times key occurs in the lists that make up the result tree
Occurrences(t, key) ==
    Cardinality({i \in 1..Len(t.roots) : t.roots[i] = key})
    + Cardinality({pi \in UNION {{<<q, i>> : i \in 1..Len(t.children[q])} :
                                    q \in Flattened(t)} :
                      t.children[pi[1]][pi[2]] = key})

Finished == pc = "done" /\ payload # None

\* C7: after a scan that finishes normally, every file and directory
\* beneath the root occurs exactly once in the returned tree, with rel_path
\* equal to its POSIX path relative to the root, and the tree holds nothing
\* else.
C7_TreeComplete ==
    Finished =>
        /\ \A e \in Trees[tree] :
               /\ Occurrences(payload[1].nodes, e.rel) = 1
               /\ payload[1].nodes.nodes[e.rel].rel_path = e.rel
        /\ Flattened(payload[1].nodes) = {e.rel : e \in Trees[tree]}

\* the ancestors of key below the root, nearest first
RECURSIVE Ancestors(_)
Ancestors(key) ==
    IF ParentKey(key) = << >> THEN << >>
    ELSE <<ParentKey(key)>> \o Ancestors(ParentKey(key))

\* the ancestors of recorded entries that the node map ns does not hold
MissingAncestors(ns) ==
    UNION {Keys(Ancestors(k)) : k \in DOMAIN ns} \ DOMAIN ns

\* C23: _build_tree, given a node map from which ancestor directories of
\* recorded entries may be absent, holds a directory node for every missing
\* ancestor afterwards, has put each of those nodes into the children list
\* of its own parent, and returns a root-level list from which every
\* recorded entry is reachable exactly once.
C23_VirtualParentsLinked ==
    (payload # None /\ pc = "idle") =>
        /\ \A v \in MissingAncestors(nodes) :
               /\ v \in DOMAIN payload[1].nodes.nodes
               /\ payload[1].nodes.nodes[v].type = "dir"
               /\ v \in Keys(payload[1].nodes.children[ParentKey(v)])
        /\ \A k \in DOMAIN nodes \ {<< >>} :
               Occurrences(payload[1].nodes, k) = 1

\* after request_cancel the worker is about to process an entry only when it
\* is the entry it had at hand at the request, its cancel check passed
OnlyEntryAtHand ==
    (cancel_requested /\ pc = "process") =>
        /\ ui.cancel_at[1] = walk_i
        /\ ui.cancel_at[2] = entry_j
        /\ ui.cancel_at[3] \in {"entry_wait", "process"}

\* a wait that times out after request_cancel ends the traversal
StopsAtPoll ==
    (cancel_requested /\ pc \in {"dir_poll", "entry_poll"}) =>
        pc' \in {pc, "done"}

\* C24: once request_cancel has been called on a running scan the worker
\* processes no entry other than the one whose cancel check had already
\* passed at the request, so at most one further entry; and a worker whose
\* wait for the pause event times out after the request returns from
\* _run_scan at that poll instead of waiting again.
C24_CancelStopsTraversal == [](OnlyEntryAtHand) /\ [][StopsAtPoll]_vars

\* cancel was requested while the worker was blocked in the pause wait; the
\* wait returned, the entry at hand was processed, and the run was cancelled
C24_Witness ==
    /\ ui.cancel_in_wait
    /\ ui.cancel_at[3] = "entry_wait"
    /\ pc = "done"
    /\ payload = None
    /\ HasSignal("cancelled")
    /\ stats.scanned >= 1
    /\ <<ui.cancel_at[1], ui.cancel_at[2]>> # <<walk_i, entry_j>>

\* request_pause has been called and neither request_resume nor
\* request_cancel since
PauseInEffect == ui.pause_at # NotYet /\ ~cancel_requested

\* the step records an entry, changes a statistic or emits a signal
WorkerOutput ==
    \/ DOMAIN nodes' \ {<< >>} # DOMAIN nodes \ {<< >>}
    \/ stats' # stats
    \/ signals' # signals

\* the worker is processing the entry it was processing at request_pause
FinishingEntryAtHand == pc = "process" /\ ui.pause_at = WorkerAt

\* C25: while a pause is in effect, the only step of the worker that records
\* an entry, changes a statistic or emits a progress event is the one that
\* finishes the entry it was already processing when request_pause was
\* called; after it nothing is recorded, counted or emitted until
\* request_resume or request_cancel.
C25_PausedWorkerIsSilent ==
    [][(PauseInEffect /\ WorkerOutput) => FinishingEntryAtHand]_vars

\* the worker of the newest scan is executing and nothing has asked it to
\* cancel: whatever reaches the window now comes from an earlier scan
NewScanUndisturbed ==
    /\ workers # << >>
    /\ workers[Len(workers)].state = "executing"
    /\ ~workers[Len(workers)].cancel_requested

\* C26: while the worker that _start_scan started last is executing and has
\* not been asked to cancel, the window takes a scan to be running and its
\* _scan_worker and _scan_thread refer to that worker and its thread,
\* whatever signals of earlier scans are delivered meanwhile.
C26_NewScanKeepsItsState ==
    NewScanUndisturbed =>
        /\ win.scan_running
        /\ win.scan_worker = Some(Len(workers))
        /\ win.scan_thread = Some(Len(workers))

\* the relative paths of the entries of the os.walk triples from the i-th
\* on, in the order _run_scan visits them
RECURSIVE VisitedFrom(_)
VisitedFrom(i) ==
    IF i > Len(walk) THEN << >>
    ELSE [j \in 1..Len(Entries(i)) |-> ChildKey(walk[i].dirpath, Entries(i)[j])]
         \o VisitedFrom(i + 1)

\* a run's nodes, statistics and signals once node is recorded with the
\* statistics st
RunWith(run, node, st) ==
    [nodes |-> (node.rel_path :> node) @@ run.nodes,
     stats |-> st,
     signals |-> run.signals \o EntryProgress(st, node.rel_path)]

\* a run after the entry for which evaluate_path gave result
RunAfter(run, result) ==
    IF result.raised # Returned THEN run
    ELSE RunWith(run, BuildNode(Trees[tree], result),
                 StatsAfter(run.stats, BuildNode(Trees[tree], result), result))

\* the run that takes the entries of keys one after the other with nothing
\* in between
RECURSIVE Uninterrupted(_, _)
Uninterrupted(keys, run) ==
    IF keys = << >> THEN run
    ELSE Uninterrupted(Tail(keys),
                       RunAfter(run, EvaluatePath(prepared, case_sensitive,
                                                  Head(keys))))

UninterruptedRun ==
    Uninterrupted(VisitedFrom(1),
                  [nodes |-> (<< >> :> PathNode(<< >>, "dir", None, None, << >>)),
                   stats |-> ScanStats(0, 0, 0, 0, 0),
                   signals |-> << >>])

\* the finished run has the payload and the signals of run
SameResultAs(run) ==
    /\ payload = Some([nodes |-> BuildTree(run.nodes), stats |-> run.stats])
    /\ signals = run.signals \o <<Progress(run.stats, DonePath),
                                  Signal("finished", payload)>>

\* C27: a scan that finishes with no cancel requested has, however often it
\* was paused and resumed, the node tree, the counters and the sequence of
\* progress events of the uninterrupted run over the same tree and rules.
C27_PauseResumeKeepsResult ==
    (Finished /\ ~cancel_requested) => SameResultAs(UninterruptedRun)

\* a finished run of two or more entries that was held in the pause wait
\* and resumed from it
C27_Witness ==
    /\ Finished
    /\ ~cancel_requested
    /\ ui.resumed_in_wait
    /\ stats.scanned >= 2
    /\ stats.matched >= 1

\* the progress events for entries: those whose path is not "done"
IsEntryProgress(sig) == sig.name = "progress" /\ sig.args[5] # DonePath

EntryEvents(sigs) == SelectSeq(sigs, IsEntryProgress)

\* the entries-scanned count an event carries: files + folders
CountOf(sig) == sig.args[1] + sig.args[2]

\* the counts at which an event is due among the first n entries: 1, then
\* every multiple of emit_interval
DueCounts(n) ==
    IF n = 0 THEN << >>
    ELSE <<1>> \o [i \in 1..(n \div EmitInterval) |-> i * EmitInterval]

\* the entries recorded so far
Recorded(ns) == Cardinality(DOMAIN ns \ {<< >>})

EventsAtDueCounts ==
    /\ stats.scanned = Recorded(nodes)
    /\ [i \in 1..Len(EntryEvents(signals)) |-> CountOf(EntryEvents(signals)[i])]
         = DueCounts(stats.scanned)

EventCountsEntries ==
    Len(EntryEvents(signals')) # Len(EntryEvents(signals))
        => /\ EntryEvents(signals') = Append(EntryEvents(signals), signals'[Len(signals')])
           /\ stats'.scanned = stats.scanned + 1
           /\ CountOf(signals'[Len(signals')]) = Recorded(nodes')
           /\ \A i \in 1..Len(EntryEvents(signals)) :
                  CountOf(EntryEvents(signals)[i]) < CountOf(signals'[Len(signals')])

\* C29: at every moment of a scan run the entry progress events emitted so
\* far (those whose path is not "done") are, in order, one for scanned
\* count 1 and one for each multiple of emit_interval = 200 up to the
\* current scanned count, and no others; and each step that emits one is the
\* step that counts an entry, the event carrying files + folders equal to
\* the number of entries recorded so far and greater than the count of
\* every earlier event.
C29_ProgressAtOneAndEvery200 == [](EventsAtDueCounts) /\ [][EventCountsEntries]_vars

\* a finished scan of 420 entries, with its events for 1, 200 and 400
C29_Witness ==
    /\ Finished
    /\ stats.scanned = 420
    /\ Len(EntryEvents(signals)) = 3
    /\ CountOf(EntryEvents(signals)[3]) = 2 * EmitInterval

\* the three tokens C28 speaks of: **/, /** and **
DoubleStarTokens ==
    { <<"*", "*", "/">>, <<"/", "*", "*">>, <<"*", "*">> }

\* v with the occurrence of tok at the 0-based offset i deleted
Without(v, i, tok) == Slice(v, 0, i) \o Slice(v, i + Len(tok), Len(v))

\* the strings got from v by deleting one occurrence of one token
Deletions(v) ==
    UNION { {Without(v, i, tok) : i \in {n \in 0..Len(v) : OccursAt(v, tok, n)}} :
              tok \in DoubleStarTokens }

\* the strings got from pattern by deleting token occurrences one after the
\* other, never down to the empty string
RECURSIVE DerivableFrom(_)
DerivableFrom(pattern) ==
    {pattern} \cup UNION {DerivableFrom(d) : d \in Deletions(pattern) \ {<< >>}}

\* what C28 says of the set S of variants expanded from pattern
IsFixedPointOf(S, pattern) ==
    /\ \A v \in S : \A d \in Deletions(v) : d = << >> \/ d \in S
    /\ S \subseteq DerivableFrom(pattern)
    /\ << >> \notin S

\* C28: the variants an engine holds for a rule are a fixed point of token
\* removal: deleting any one occurrence of **/, /** or ** from any variant
\* gives a variant again, unless it gives the empty string; every variant
\* is got from the rule's pattern by such deletions; and the empty string is
\* not among them.  The same holds of the variants of the lowercased pattern.
C28_ExpansionIsFixedPoint ==
    \A k \in 1..Len(prepared) :
        /\ IsFixedPointOf(VariantSet(prepared[k].patterns),
                          prepared[k].rule.pattern)
        /\ IsFixedPointOf(VariantSet(prepared[k].patterns_lower),
                          Lower(prepared[k].rule.pattern))

\* an engine holds a pattern with four different single deletions, and a
\* variant other than the pattern from which a token can still be deleted
C28_Witness ==
    \E k \in 1..Len(prepared) :
        /\ Cardinality(Deletions(prepared[k].rule.pattern)) >= 4
        /\ \E v \in VariantSet(prepared[k].patterns) :
               /\ v # prepared[k].rule.pattern
               /\ Deletions(v) \ {<< >>} # {}

\* rule with its pattern kept and everything else changed: the action (to
\* "!" or to "+"), the enabled flag, the label, the color and the lineno
Rebadged(rule, action) ==
    [action |-> action, pattern |-> rule.pattern, lineno |-> rule.lineno + 7,
     enabled |-> ~rule.enabled, label |-> Some(<<"x">>), color |-> Some(<<"r">>)]

\* the rule lists that differ from rs in the badge of one rule
RebadgedLists(rs) ==
    { [rs EXCEPT ![k] = Rebadged(rs[k], IF k % 2 = 1 THEN "!" ELSE "+")] :
        k \in 1..Len(rs) }

\* the prepared rules prep with each rule replaced by the one at its index
\* in rs
Reprepared(prep, rs) ==
    [k \in 1..Len(prep) |-> [prep[k] EXCEPT !.rule = rs[prep[k].index + 1]]]

\* the engine holding prep, whose matching_rule_indexes gives m for the path
\* of the call made, answers as this call did; its match_path gives
\* DecisionFor(prep, m)
SameAnswers(prep, m) ==
    /\ decision.raised # Pending => SameDecision(DecisionFor(prep, m), decision)
    /\ all_indexes.raised \in {Returned, "ValueError"} => m = all_indexes

SameAnswersFrom(prep) ==
    SameAnswers(prep, MatchingRuleIndexes(prep, case_sensitive, rel_path))

\* C30: the outcome of match_path / evaluate_path (raised or returned,
\* matched, rule_index) and the tuple of matching_rule_indexes for the path
\* of the call are the same for an engine built from the rule list with the
\* action, enabled flag, label, color and lineno of any one rule changed.
\* What __init__ prepares from the changed list differs from what this
\* engine holds in the rule objects only (the rules do not change after
\* construction, so this is looked at before the first call), and an
\* engine holding that answers every call as this one does.
C30_OnlyPatternsMatter ==
    \A rs \in RebadgedLists(rules) :
        /\ Fresh => Prepared(rs) = Reprepared(prepared, rs)
        /\ SameAnswersFrom(Reprepared(prepared, rs))

\* evaluate_path found both rules of a two-rule list matching
C30_Witness ==
    /\ Len(rules) = 2
    /\ Matched
    /\ decision.rule_index = Some(0)
    /\ all_indexes = [raised |-> Returned, matches |-> <<0, 1>>]

\* ---- parse_filter_file (SpecParse)

\* the first character of a line once its surrounding whitespace is gone,
\* or "" for a blank line
FirstChar(raw_line) ==
    IF Strip(raw_line, Whitespace) = << >> THEN ""
    ELSE Strip(raw_line, Whitespace)[1]

IsBlank(raw_line)    == FirstChar(raw_line) = ""
IsPlusLine(raw_line) == FirstChar(raw_line) = "+"
IsRuleLine(raw_line) == FirstChar(raw_line) \in {"-", "!"}

\* the metadata a comment line carries for key, as an Optional value
MetaValue(raw_line, key) ==
    IF FirstChar(raw_line) # "#" THEN None
    ELSE IF ParseMetadataComment(Strip(raw_line, Whitespace)) = None THEN None
    ELSE IF ParseMetadataComment(Strip(raw_line, Whitespace))[1].key # key THEN None
    ELSE Some(ParseMetadataComment(Strip(raw_line, Whitespace))[1].value)

Greatest(S) == CHOOSE n \in S : \A m \in S : m <= n

\* the last line before line n that is blank, a "+" line or a rule line
\* (0 for none)
LastReset(n) ==
    Greatest({0} \cup {m \in 1..(n - 1) :
                         IsBlank(lines[m]) \/ IsPlusLine(lines[m]) \/ IsRuleLine(lines[m])})

\* the value of the most recent comment for key after the last reset
\* before line n, or None
MostRecent(n, key) ==
    IF {m \in (LastReset(n) + 1)..(n - 1) : MetaValue(lines[m], key) # None} = {}
    THEN None
    ELSE MetaValue(lines[Greatest({m \in (LastReset(n) + 1)..(n - 1) :
                                      MetaValue(lines[m], key) # None})], key)

\* C8: a "+" line adds no rule and clears the pending label and color, so
\* a metadata comment placed before a "+" line reaches no later rule.
C8_PlusLineResets ==
    /\ \A n \in 1..Len(lines) :
           IsPlusLine(lines[n]) =>
               /\ \A k \in 1..Len(parsed) : parsed[k].lineno # n
               /\ \A k \in 1..Len(parsed) :
                      (parsed[k].lineno > n /\ parsed[k].label # None) =>
                          \E m \in (n + 1)..(parsed[k].lineno - 1) :
                              MetaValue(lines[m], KeyLabel) # None
               /\ \A k \in 1..Len(parsed) :
                      (parsed[k].lineno > n /\ parsed[k].color # None) =>
                          \E m \in (n + 1)..(parsed[k].lineno - 1) :
                              MetaValue(lines[m], KeyColor) # None
    /\ (lines # << >> /\ IsPlusLine(lines[Len(lines)])) =>
           (pending_label = None /\ pending_color = None)

\* a label comment, a "+" line, then a rule: the rule has no label
C8_Witness ==
    /\ Len(lines) = 3
    /\ MetaValue(lines[1], KeyLabel) # None
    /\ IsPlusLine(lines[2])
    /\ Len(parsed) = 1
    /\ parsed[1].lineno = 3
    /\ parsed[1].label = None

\* C9: the label (color) of an emitted rule is the trimmed value of the
\* most recent label (color) comment since the last blank line, "+" line
\* or emitted rule, None if there is none; the pending values after any
\* line are the same function of the lines read, so blank lines and rules
\* reset them and other comments and skipped lines leave them as they were.
C9_MostRecentMetadata ==
    /\ \A k \in 1..Len(parsed) :
           /\ parsed[k].label = MostRecent(parsed[k].lineno, KeyLabel)
           /\ parsed[k].color = MostRecent(parsed[k].lineno, KeyColor)
    /\ pending_label = MostRecent(Len(lines) + 1, KeyLabel)
    /\ pending_color = MostRecent(Len(lines) + 1, KeyColor)

\* two label comments precede a rule: the later one labels it
C9_Witness ==
    /\ Len(lines) = 3
    /\ MetaValue(lines[1], KeyLabel) = Some(<<"a">>)
    /\ MetaValue(lines[2], KeyLabel) = Some(<<"b">>)
    /\ Len(parsed) = 1
    /\ parsed[1].label = Some(<<"b">>)
    /\ pending_label = None

\* the lines read so far that begin with "-" or "!" (as the parser reads a
\* line: its first character once surrounding whitespace is trimmed)
RuleLineNumbers == {n \in 1..Len(lines) : IsRuleLine(lines[n])}

\* C10: the rules returned are, in file order, exactly one per line whose
\* first character (surrounding whitespace trimmed) is "-" or "!", each with
\* that line's action token and 1-based line number, so line numbers
\* strictly increase; no other line yields a rule, and every line is read.
C10_OneRulePerRuleLine ==
    /\ Len(parsed) = Cardinality(RuleLineNumbers)
    /\ \A k \in 1..Len(parsed) :
           /\ parsed[k].lineno \in RuleLineNumbers
           /\ parsed[k].action = FirstChar(lines[parsed[k].lineno])
           /\ parsed[k].enabled
           /\ k < Len(parsed) => parsed[k].lineno < parsed[k + 1].lineno
    /\ lineno = Len(lines)

\* a file with a rule, a "+" line and a "!" rule has been parsed to the end
C10_Witness ==
    /\ last_step = "return"
    /\ Len(lines) = 3
    /\ IsPlusLine(lines[2])
    /\ Len(parsed) = 2
    /\ parsed[1].lineno = 1
    /\ parsed[2].lineno = 3
    /\ parsed[2].action = "!"

\* the text of a rule line after its first character, trimmed
AfterAction(raw_line) == Strip(Tail(Strip(raw_line, Whitespace)), Whitespace)

\* text begins with a run of whitespace that is followed by "#"
BeginsInlineComment(text) ==
    \E k \in 2..Len(text) :
        /\ text[k] = "#"
        /\ \A m \in 1..(k - 1) : text[m] \in Whitespace

\* pattern is text without its inline trailing comment: it is the part of
\* text before the first run of whitespace followed by "#", or all of text
\* when there is no such run
IsWithoutInlineComment(pattern, text) ==
    /\ Len(pattern) <= Len(text)
    /\ pattern = SubSeq(text, 1, Len(pattern))
    /\ \A i \in 1..Len(pattern) :
           ~BeginsInlineComment(SubSeq(pattern, i, Len(pattern)))
    /\ pattern # text => BeginsInlineComment(SubSeq(text, Len(pattern) + 1, Len(text)))
    /\ pattern # << >> => pattern[Len(pattern)] \notin Whitespace

\* the lines read so far that begin with "+" or "-"
PlusMinusLineNumbers ==
    {n \in 1..Len(lines) : FirstChar(lines[n]) \in {"+", "-"}}

\* C11: for a rule line beginning with "+" or "-", the parsed pattern is the
\* text after the first character, trimmed, without its inline trailing
\* comment (everything from the first run of whitespace followed by "#");
\* a "#" not preceded by whitespace stays in the pattern.  This holds of
\* what _parse_rule_line returns for the line and of the rule emitted for it.
C11_InlineCommentStripped ==
    /\ \A n \in PlusMinusLineNumbers :
           IsWithoutInlineComment(
               ParseRuleLine(Strip(lines[n], Whitespace)).pattern,
               AfterAction(lines[n]))
    /\ \A k \in 1..Len(parsed) :
           parsed[k].lineno \in PlusMinusLineNumbers =>
               IsWithoutInlineComment(parsed[k].pattern,
                                      AfterAction(lines[parsed[k].lineno]))

\* "-a#b #c" was parsed into a rule with pattern "a#b", after a "+" line
\* that carries an inline comment
C11_Witness ==
    /\ Len(lines) = 2
    /\ lines[1] = <<"+", " ", "c", " ", " ", "#", "d">>
    /\ ParseRuleLine(lines[1]).pattern = <<"c">>
    /\ lines[2] = <<"-", "a", "#", "b", " ", "#", "c">>
    /\ Len(parsed) = 1
    /\ parsed[1].pattern = <<"a", "#", "b">>

\* C15: when the root path does not exist, the run fails with the not-found
\* error before any traversal: the worker is either not started yet or has
\* raised, os.walk was never called, no entry was evaluated, no node was
\* recorded, no counter moved and no progress event (nor any other signal)
\* was emitted.
C15_MissingRootFailsFirst ==
    ~root_exists =>
        /\ pc \in {"idle", "raised"}
        /\ walk = << >> /\ walk_i = 0 /\ entry_j = 0
        /\ nodes = << >>
        /\ stats = ScanStats(0, 0, 0, 0, 0)
        /\ ~HasSignal("progress")
        /\ signals = << >>
        /\ payload = None

\* start() was called on a worker whose root is missing, and has raised
C15_Witness == ~root_exists /\ pc = "raised"

\* the positions in signals of the progress events with the path "done"
DoneEvents ==
    {i \in 1..Len(signals) :
        signals[i].name = "progress" /\ signals[i].args[5] = DonePath}

\* C16: in a run that has ended as finished or cancelled, the progress event
\* with the path "done" was emitted exactly once, after every progress event
\* of an entry and immediately before the finished or cancelled signal,
\* which is the last signal of the run.
C16_DoneProgressOnce ==
    pc = "done" =>
        /\ Len(signals) >= 2
        /\ signals[Len(signals)].name \in {"finished", "cancelled"}
        /\ DoneEvents = {Len(signals) - 1}

\* the entries recorded in the node map: every key but the root's
RecordedKeys == DOMAIN nodes \ {<< >>}

\* the recorded entries for which a rule matched
MatchedKeys == {k \in RecordedKeys : nodes[k].rule_index # None}

\* the sum of the known sizes of the file entries among keys
RECURSIVE KnownBytes(_)
KnownBytesOf(k, rest) ==
    (IF nodes[k].type = "file" /\ nodes[k].size # None
     THEN nodes[k].size[1] ELSE 0) + KnownBytes(rest \ {k})
KnownBytes(keys) ==
    IF keys = {} THEN 0 ELSE KnownBytesOf(CHOOSE k \in keys : TRUE, keys)

StatsConsistent ==
    /\ stats.scanned = stats.files + stats.folders
    /\ stats.scanned = Cardinality(RecordedKeys)
    /\ stats.files = Cardinality({k \in RecordedKeys : nodes[k].type = "file"})
    /\ stats.matched = Cardinality(MatchedKeys)
    /\ stats.matched <= stats.scanned
    /\ stats.matched_bytes = KnownBytes(MatchedKeys)

StatsNeverDecrease ==
    /\ stats'.scanned >= stats.scanned
    /\ stats'.files >= stats.files
    /\ stats'.folders >= stats.folders
    /\ stats'.matched >= stats.matched
    /\ stats'.matched_bytes >= stats.matched_bytes

\* C18: between the iterations of the scan loop, and at its end, scanned =
\* files + folders = the number of entries recorded in the node map (the
\* root's own node left out); matched is the number of recorded entries for
\* which a rule matched, so matched <= scanned; matched_bytes is the sum of
\* the known sizes of the matched file entries; and no step of the run
\* lowers a counter.
C18_StatsConsistent == [](StatsConsistent) /\ [][StatsNeverDecrease]_vars

\* a run has recorded a matched file of known size and an unmatched entry
C18_Witness ==
    /\ stats.scanned >= 2
    /\ stats.matched >= 1
    /\ stats.matched < stats.scanned
    /\ stats.matched_bytes > 0

\* what C19 says of the tuple vs expanded from pattern
IsExpansionOf(vs, pattern) ==
    /\ \E i \in 1..Len(vs) : vs[i] = pattern
    /\ \A i, j \in 1..Len(vs) : i < j =>
           /\ vs[i] # vs[j]
           /\ \/ Len(vs[i]) > Len(vs[j])
              \/ Len(vs[i]) = Len(vs[j]) /\ StrLess(vs[i], vs[j])

\* C19: the variants an engine holds for a rule (those of the pattern, and
\* those of the lowercased pattern) contain the pattern they were expanded
\* from, hold no variant twice, and are ordered longest first, variants of
\* equal length in lexicographic order; and the tuple depends on the pattern
\* alone: two rules with the same pattern hold the same tuple, whatever
\* their positions and whatever the case sensitivity of the engine.
C19_ExpansionOrdered ==
    \A k \in 1..Len(prepared) :
        /\ IsExpansionOf(prepared[k].patterns, prepared[k].rule.pattern)
        /\ IsExpansionOf(prepared[k].patterns_lower,
                         Lower(prepared[k].rule.pattern))
        /\ prepared[k].patterns = ExpandPatterns(prepared[k].rule.pattern)
        /\ \A j \in 1..Len(prepared) :
               prepared[j].rule.pattern = prepared[k].rule.pattern =>
                   prepared[j].patterns = prepared[k].patterns

\* an engine holds the nine variants of **/b/**, with ties of equal length
C19_Witness ==
    \E k \in 1..Len(prepared) :
        /\ Len(prepared[k].patterns) = 9
        /\ \E i \in 1..8 :
               Len(prepared[k].patterns[i]) = Len(prepared[k].patterns[i + 1])

\* pattern holds the substring **
HasDoubleStar(pattern) == Find(pattern, <<"*", "*">>, 0) # -1

\* C20: a pattern without ** expands to the single-element tuple holding
\* the pattern itself; and expanding any variant without ** of any pattern
\* gives just that variant.
C20_NoDoubleStarIsFixed ==
    \A k \in 1..Len(prepared) :
        /\ ~HasDoubleStar(prepared[k].rule.pattern) =>
               prepared[k].patterns = <<prepared[k].rule.pattern>>
        /\ \A i \in 1..Len(prepared[k].patterns) :
               ~HasDoubleStar(prepared[k].patterns[i]) =>
                   ExpandPatterns(prepared[k].patterns[i])
                       = <<prepared[k].patterns[i]>>

\* an engine holds a rule whose pattern has a single star and no **, and a
\* rule whose pattern expands to variants with and without **
C20_Witness ==
    /\ \E k \in 1..Len(prepared) :
           /\ ~HasDoubleStar(prepared[k].rule.pattern)
           /\ Find(prepared[k].rule.pattern, <<"*">>, 0) # -1
    /\ \E k \in 1..Len(prepared) :
           /\ HasDoubleStar(prepared[k].rule.pattern)
           /\ \E i \in 1..Len(prepared[k].patterns) :
                  ~HasDoubleStar(prepared[k].patterns[i])

\* the workers executing start()
Executing == {w \in 1..Len(workers) : workers[w].state = "executing"}

\* C17: at most one ScanWorker of the window is executing at any time; a
\* new worker is started only once the previous one has stopped.
C17_OneWorkerAtATime == Cardinality(Executing) <= 1

\* the call just made reported "not matched": it returned matched = false
\* and no rule_index
ReportsUnmatched ==
    /\ decision.raised = Returned
    /\ ~decision.matched
    /\ decision.rule_index = None

\* C21: a call of match_path or evaluate_path reports matched = false with
\* no rule_index exactly when no rule's pattern variants match the path;
\* and for evaluate_path, exactly when the all_rule_indexes it returns with
\* the decision is empty.
C21_UnmatchedIffNoRuleMatches ==
    decision.raised # Pending =>
        /\ ReportsUnmatched <=>
               SatisfyingIndexes(rules, case_sensitive, rel_path) = {}
        /\ all_indexes.raised = Returned =>
               (ReportsUnmatched <=> all_indexes.matches = << >>)

\* C22: for every rule list and every path, a call of match_path or
\* evaluate_path returns without raising, and when it reports a match the
\* rule it returns is the element of the original rule list at the
\* position rule_index.
C22_ReturnsRuleAtIndex ==
    decision.raised # Pending =>
        /\ decision.raised = Returned
        /\ decision.matched =>
               /\ decision.rule_index # None
               /\ decision.rule_index[1] \in 0..(Len(rules) - 1)
               /\ decision.rule = Some(rules[decision.rule_index[1] + 1])
====
